---- MODULE Spec2Model ----
(***************************************************************************)
(* Deduplication and subscription fan-out core of the space-weather bot,   *)
(* as implemented by the Discord adapter (spaceweatherbot.py) and the      *)
(* Slack adapter (spaceweatherbot_slack.py).                               *)
(*                                                                         *)
(* Both adapters run on one asyncio event loop: a handler runs without     *)
(* interruption between two awaits that really suspend (a feed fetch, a    *)
(* discord send).  Each action below is one such uninterrupted stretch.    *)
(* The Slack send (WebClient.chat_postMessage) is a blocking call, so a    *)
(* Slack fan-out is one stretch.                                           *)
(***************************************************************************)
EXTENDS Integers, Sequences, FiniteSets, TLC

\* ------------------------------ bounds ---------------------------------
NumDest == 2        \* number of chat destinations
MaxDate == 1        \* local calendar days are 0..MaxDate
MaxLen == 4         \* longest class string given to parse_flare_class
MaxAttempts == 2    \* cap of the per-(event, destination) attempt counter

\* ----------------------------- constants -------------------------------
Adapters == {"discord", "slack"}
Destinations == 1..NumDest
None == "None"

\* Strings whose characters matter are sequences of one-character strings.
\* A missing (None) or empty class string is << >>: every use in the code
\* is `x or y`, which treats None and "" alike.
NoClass == << >>

Digits == {"0", "1", "5"}
Chars == {"M", "x", "C", "b", "Z", "."} \cup Digits

\* str.upper() on the alphabet
Upper(c) == CASE c = "x" -> "X" [] c = "b" -> "B" [] OTHER -> c

DigitVal(c) == CASE c = "0" -> 0 [] c = "1" -> 1 [] c = "5" -> 5 [] OTHER -> 0

RECURSIVE Pow10(_)
Pow10(n) == IF n = 0 THEN 1 ELSE 10 * Pow10(n - 1)

\* length of the run of digits of s that starts at position i (\d+ is greedy)
RECURSIVE DigitRun(_, _)
DigitRun(s, i) ==
    IF i <= Len(s) /\ s[i] \in Digits THEN 1 + DigitRun(s, i + 1) ELSE 0

\* decimal value of the digits s[i..i+n-1]
RECURSIVE DecVal(_, _, _)
DecVal(s, i, n) ==
    IF n = 0 THEN 0 ELSE DecVal(s, i, n - 1) * 10 + DigitVal(s[i + n - 1])

NoMatch == [letter |-> None, num |-> 0, den |-> 1]

\* re.match(r"([CXMB])(\d+(?:\.\d+)?)", s) applied at position p of s;
\* float(group 2) is the exact decimal num/den
MatchAt(s, p) ==
    IF p <= Len(s) /\ s[p] \in {"C", "X", "M", "B"}
    THEN LET n1 == DigitRun(s, p + 1)
             dot == p + 1 + n1
             n2 == IF dot <= Len(s) /\ s[dot] = "." THEN DigitRun(s, dot + 1) ELSE 0
         IN  IF n1 = 0 THEN NoMatch
             ELSE [letter |-> s[p],
                   num |-> DecVal(s, p + 1, n1) * Pow10(n2) + DecVal(s, dot + 1, n2),
                   den |-> Pow10(n2)]
    ELSE NoMatch

\* the same pattern found anywhere in the string (re.search)
SearchAnywhere(s) ==
    IF \E p \in 1..Len(s) : MatchAt(s, p) # NoMatch
    THEN MatchAt(s, CHOOSE p \in 1..Len(s) :
                        /\ MatchAt(s, p) # NoMatch
                        /\ \A q \in 1..(p - 1) : MatchAt(s, q) = NoMatch)
    ELSE NoMatch

parse_flare_class_search(flare_class) ==
    IF flare_class = NoClass THEN NoMatch
    ELSE SearchAnywhere([i \in 1..Len(flare_class) |-> Upper(flare_class[i])])

parse_flare_class(flare_class) ==
    IF flare_class = NoClass THEN NoMatch
    ELSE MatchAt([i \in 1..Len(flare_class) |-> Upper(flare_class[i])], 1)

is_m_or_x_class_with_c(flare_class) ==
    parse_flare_class(flare_class).letter \in {"M", "X", "C"}

is_m_or_x_class(flare_class) ==
    parse_flare_class(flare_class).letter \in {"M", "X"}

\* ------------------------------ the feed --------------------------------
\* A record of xray-flares-latest.json: the fields the poll cycle reads.
\* kind "none": the fetch gave no data; kind "other": data[0] is a truthy
\* value that is not a dict, so flare.get raises inside the cycle.
Rec(mc, cc, mt, tt, bt) ==
    [kind |-> "dict", max_class |-> mc, current_class |-> cc,
     max_time |-> mt, time_tag |-> tt, begin_time |-> bt]

NoData == [kind |-> "none", max_class |-> NoClass, current_class |-> NoClass,
           max_time |-> None, time_tag |-> None, begin_time |-> None]
NonDict == [NoData EXCEPT !.kind = "other"]

FlareRecords ==
    { Rec(<<"M", "1", ".", "5">>, NoClass, "T2", None, None),
      Rec(NoClass, <<"x", "5">>, None, None, "T2"),
      Rec(<<"C", "1", ".", "0">>, NoClass, "T1", None, None),
      Rec(<<"Z", "1">>, NoClass, "T1", None, None),
      Rec(NoClass, NoClass, "T1", None, None) }

FetchResults == FlareRecords \cup {NoData, NonDict}

\* Python `a or b`
OrClass(a, b) == IF a # NoClass THEN a ELSE b
OrTime(a, b) == IF a # None THEN a ELSE b

FlareClassOf(flare) == OrClass(flare.max_class, flare.current_class)
FlareTimeOf(flare) == OrTime(flare.max_time, OrTime(flare.time_tag, flare.begin_time))

\* the id without the class string
FlareIdTimeOnly(flare) == <<FlareTimeOf(flare), NoClass>>

\* f"{flare_time}_{flare_class}": the pair of its two parts
FlareIdOf(flare) == <<FlareTimeOf(flare), FlareClassOf(flare)>>

FlareIds == {FlareIdOf(r) : r \in {x \in FlareRecords : is_m_or_x_class(FlareClassOf(x))}}

\* the membership test answering "new" for every id
IsNewAlways(seen, id) == TRUE

\* if flare_id in self.seen_flare_ids: return
IsNew(seen, id) == id \notin seen

\* set.add without the insertion
AcceptDropped(seen, id) == seen

\* the set replaced by the new id instead of extended
AcceptReplace(seen, id) == {id}

\* self.seen_flare_ids.add(flare_id)
Accept(seen, id) == seen \cup {id}

\* format_flare_embed / _format_flare_blocks: the "Peak Class" field of the
\* message, flare.get("max_class") or flare.get("current_class", "Unknown")
Unknown == <<"Unknown">>
format_flare_embed(flare) ==
    [peak_class |-> OrClass(flare.max_class, OrClass(flare.current_class, Unknown))]

\* a list of every destination, whatever the set holds
ListsOfAll(S) ==
    {q \in [1..NumDest -> 1..NumDest] : \A i, j \in 1..NumDest : q[i] = q[j] => i = j}

\* list(a_set): the elements once each, in an order the code does not choose
ListsOf(S) ==
    {q \in [1..Cardinality(S) -> S] : \A i, j \in 1..Cardinality(S) : q[i] = q[j] => i = j}

Range(q) == {q[i] : i \in 1..Len(q)}

\* ------------------------------- state ----------------------------------
VARIABLES
    adapter,            \* which of the two programs runs
    token,              \* whether the bot credential is in the environment
    app_token,          \* whether SLACK_APP_TOKEN is in the environment
    tasks,              \* scheduler tasks created at startup, per task
    process,            \* "boot" until amain has started the bot, then "running" or "exited"
    seen_flare_ids,     \* self.seen_flare_ids
    subscribed_flares,  \* self.subscribed_flares (Slack: self.subscribed_channels)
    subscribed_daily,   \* self.subscribed_daily
    last_flare_time,    \* self._last_flare_time
    last_daily_date,    \* self._last_daily_date
    pollPc,             \* position of the flare poll task
    pollFlare,          \* local `flare` of the running poll cycle
    pollEmbed,          \* local `embed` (Slack: `blocks`) of the running poll cycle
    pollQueue,          \* destinations of list(self.subscribed_flares) not yet visited
    pollSnapshot,       \* the destinations list(self.subscribed_flares) held
    pollLog,            \* what the running cycle did for each destination visited
    pollFetches,        \* feed fetches the running cycle has issued
    digestPc,           \* position of the daily summary task
    now_est,            \* local time of the latest daily summary tick
    digestQueue,        \* destinations of list(self.subscribed_daily) not yet visited
    digestSnapshot,     \* the destinations list(self.subscribed_daily) held
    digestLog,          \* what the running digest did for each destination visited
    reply,              \* the reply a command handler is sending
    attempts,           \* history: send calls made per <<event id, destination>>
    firedOn,            \* history: digests fired per local date
    presence,           \* the presence the Discord status task has set
    clsInput,           \* argument of the classifier under test
    clsResult,          \* its results
    alertsArg,          \* feed payload and limit of the fetch_alerts call under test
    alertsResult,       \* what the call returned
    forecastArg,        \* forecast feed and local date of the digest build under test
    forecastResult,     \* the entry the build chose as today's forecast
    discordBot,         \* side-by-side run: the state of the Discord bot
    slackBot,           \* side-by-side run: the state of the Slack bot
    callArg,            \* argument of the function under test
    callResult          \* what the function returned

envVars == <<adapter, token, app_token, process, tasks>>
progVars == <<seen_flare_ids, subscribed_flares, subscribed_daily,
              last_flare_time, last_daily_date>>
pollVars == <<pollPc, pollFlare, pollEmbed, pollQueue, pollSnapshot, pollLog,
              pollFetches>>
digestVars == <<digestPc, now_est, digestQueue, digestSnapshot, digestLog>>
histVars == <<attempts, firedOn>>
clsVars == <<clsInput, clsResult>>
alertVars == <<alertsArg, alertsResult>>
forecastVars == <<forecastArg, forecastResult>>
pairVars == <<discordBot, slackBot>>
callVars == <<callArg, callResult>>
pureVars == <<clsVars, alertVars, forecastVars, pairVars, callVars>>
vars == <<envVars, progVars, pollVars, digestVars, reply, histVars, presence, pureVars>>

NoReply == [cmd |-> "none", ch |-> 0, text |-> "none"]
\* the local `embed` / `blocks` before the message is built
NoEmbed == [peak_class |-> NoClass]
\* nothing set yet: discord.py shows no activity
NoPresence == [kind |-> "none", flare_class |-> NoClass]
\* no fetch_alerts call under test
NoCall == [kind |-> "none", arr |-> << >>, limit |-> 0]
NoReturn == [done |-> FALSE, value |-> << >>]
\* no digest build under test; today_forecast = None
NoBuild == [arr |-> << >>, date |-> 0]
NoEntry == [date |-> << >>, m_class_1_day |-> 0]
NoChoice == [done |-> FALSE, today_forecast |-> NoEntry]
NoResult == [parsed |-> NoMatch, qualifies |-> FALSE, done |-> FALSE]

\* %Y-%m-%d of a local day
DateStr == <<"2025-01-10", "2025-01-11", "2025-01-12", "2025-01-13">>
strftime_ymd(t) == DateStr[t.day + 1]

Hours == {13, 17}
Minutes == {0, 4, 5}
Times == [day : 0..MaxDate, hour : Hours, minute : Minutes]
Before(s, t) ==
    \/ s.day < t.day
    \/ s.day = t.day /\ s.hour < t.hour
    \/ s.day = t.day /\ s.hour = t.hour /\ s.minute < t.minute

\* No handler is between its last effect and its return.
Settled ==
    /\ process = "running"
    /\ pollPc # "done" /\ digestPc # "done" /\ reply = NoReply

\* the objects as their constructors leave them
\* a bot as its constructor leaves it; `sentFlares` and `sentDigests` are what
\* the latest step attempted to deliver
NoBot == [seen |-> {}, flares |-> {}, daily |-> {}, marker |-> None,
          sentFlares |-> {}, sentDigests |-> {}]
NoArg == [kind |-> "none"]
NoValue == [done |-> FALSE]

InitExtra ==
    /\ discordBot = NoBot
    /\ slackBot = NoBot
    /\ callArg = NoArg
    /\ callResult = NoValue

InitState ==
    /\ adapter \in Adapters
    /\ seen_flare_ids = {}
    /\ subscribed_flares = {}
    /\ subscribed_daily = {}
    /\ last_flare_time = None
    /\ last_daily_date = None
    /\ pollPc = "idle"
    /\ pollFlare = NoData
    /\ pollEmbed = NoEmbed
    /\ pollQueue = << >>
    /\ pollSnapshot = {}
    /\ pollLog = << >>
    /\ pollFetches = 0
    /\ digestPc = "idle"
    /\ now_est = [day |-> 0, hour |-> 0, minute |-> 0]
    /\ digestQueue = << >>
    /\ digestSnapshot = {}
    /\ digestLog = << >>
    /\ reply = NoReply
    /\ presence = NoPresence
    /\ attempts = [p \in FlareIds \X Destinations |-> 0]
    /\ firedOn = [d \in 0..MaxDate |-> 0]

\* the bot has started with its credential
\* how many times each scheduler task has been created
NoTasks == [poll |-> 0, digest |-> 0]
BothTasks == [poll |-> 1, digest |-> 1]

InitProgram ==
    /\ InitState
    /\ token = TRUE
    /\ app_token = TRUE
    /\ process = "running"
    /\ tasks = BothTasks

Init ==
    /\ InitProgram
    /\ clsInput = NoClass
    /\ clsResult = NoResult
    /\ alertsArg = NoCall
    /\ alertsResult = NoReturn
    /\ forecastArg = NoBuild
    /\ forecastResult = NoChoice
    /\ InitExtra

\* --------------------------- fan-out helpers ----------------------------
Entry(ch, result, msg) == [ch |-> ch, result |-> result, msg |-> msg]
Visited(log) == {log[i].ch : i \in 1..Len(log)}
Attempted(log) == {log[i].ch : i \in {j \in 1..Len(log) : log[j].result # "skipped"}}
Received(log) == {log[i].ch : i \in {j \in 1..Len(log) : log[j].result = "ok"}}
Raised(log) == {log[i].ch : i \in {j \in 1..Len(log) : log[j].result = "raised"}}
Failed(log) == {log[i].ch : i \in {j \in 1..Len(log) : log[j].result \in {"failed", "raised"}}}

\* Slack _send_message: chat_postMessage returns ("ok"), raises SlackApiError,
\* which is caught and printed ("failed"), or raises anything else, which
\* leaves _send_message ("raised").
SlackSendOutcomes == {"ok", "failed", "raised"}

\* for ch_id in list(...): await self._send_message(ch_id, ...)
\* The loop ends at the first send that lets an exception out.
SlackFanout(q, o, msg) ==
    LET raisedAt == {i \in 1..Len(q) : o[q[i]] = "raised"}
        stop == IF raisedAt = {} THEN Len(q)
                ELSE CHOOSE i \in raisedAt : \A j \in raisedAt : i <= j
    IN  [i \in 1..stop |-> Entry(q[i], o[q[i]], msg)]

\* except Exception: self.subscribed_flares.clear()
DiscardAll(subs, ch_id) == {}

\* except Exception: pass
DiscardNothing(subs, ch_id) == subs

\* except Exception: self.subscribed_flares.discard(ch_id)
DiscardOnFailure(subs, ch_id) == subs \ {ch_id}

\* the digest's except clause discarding from the flare set as well
FlaresOnDailyFailureDiscard(subs, ch_id) == subs \ {ch_id}

\* the digest's except clause names self.subscribed_daily only: the flare
\* set is as it was
FlaresOnDailyFailure(subs, ch_id) == subs

\* one more send call for event id to each destination of chs
CountAttempts(att, id, chs) ==
    [p \in DOMAIN att |-> IF p[1] = id /\ p[2] \in chs THEN att[p] + 1 ELSE att[p]]

\* ----------------------------- poll cycle -------------------------------
\* every cycle started although one is still running
MayStartCycleAlways(pc) == TRUE

\* tasks.loop awaits the body before it sleeps for the next iteration; the
\* Slack `while True` awaits the body and the sleep in sequence
MayStartCycle(pc) == pc = "idle"

\* the subscriber test that never returns early
HasSubscribersAlways(subs) == TRUE

\* `if not self.subscribed_flares: return` / `if self.subscribed_channels:`
HasSubscribers(subs) == subs # {}

\* the exception leaves the task body and the loop is over
AfterExceptionStops == "stopped"

\* `except Exception as e: print(...)`: the cycle is over, the loop goes on
AfterException == "done"

\* A timer tick starts a cycle; with no subscriber it returns at once.
PollTick ==
    /\ Settled
    /\ MayStartCycle(pollPc)
    /\ pollPc' = IF HasSubscribers(subscribed_flares) THEN "fetch" ELSE "done"
    /\ pollFetches' = IF HasSubscribers(subscribed_flares) THEN 1 ELSE 0
    /\ UNCHANGED <<envVars, progVars, pollFlare, pollEmbed, pollQueue, pollSnapshot,
                   pollLog, digestVars, reply, histVars, presence, pureVars>>

\* the cycle returns without accepting anything; a record that is no mapping
\* raises at `flare.get`
PollSkip(flare) ==
    /\ pollFlare' = flare
    /\ pollPc' = IF flare.kind = "other" THEN AfterException ELSE "done"
    /\ UNCHANGED <<progVars, pollEmbed, pollQueue, pollSnapshot, pollLog, histVars>>

\* the cycle accepts the event, but building the message raises
PollBuildFailed(flare) ==
    /\ pollFlare' = flare
    /\ seen_flare_ids' = Accept(seen_flare_ids, FlareIdOf(flare))
    /\ last_flare_time' = FlareTimeOf(flare)
    /\ pollPc' = AfterException
    /\ UNCHANGED <<subscribed_flares, subscribed_daily, last_daily_date, pollEmbed,
                   pollQueue, pollSnapshot, pollLog, histVars>>

\* the cycle accepts the event, builds the message and starts the fan-out over q
PollAccept(flare, q) ==
    /\ pollFlare' = flare
    /\ seen_flare_ids' = Accept(seen_flare_ids, FlareIdOf(flare))
    /\ last_flare_time' = FlareTimeOf(flare)
    /\ pollEmbed' = format_flare_embed(flare)
    /\ pollSnapshot' = Range(q)
    /\ UNCHANGED <<subscribed_flares, subscribed_daily, last_daily_date, firedOn>>
    /\ IF adapter = "discord"
       THEN /\ pollQueue' = q
            /\ pollLog' = << >>
            /\ pollPc' = IF q = << >> THEN "done" ELSE "fanout"
            /\ UNCHANGED attempts
       ELSE \E o \in [Destinations -> SlackSendOutcomes] :
            /\ pollLog' = SlackFanout(q, o, format_flare_embed(flare))
            /\ \A ch \in Attempted(pollLog') :
                   attempts[<<FlareIdOf(flare), ch>>] < MaxAttempts
            /\ attempts' = CountAttempts(attempts, FlareIdOf(flare), Attempted(pollLog'))
            /\ pollQueue' = << >>
            /\ pollPc' = IF Raised(pollLog') = {} THEN "done" ELSE AfterException

\* The fetch has returned `flare`: classify, deduplicate, accept, build the
\* message (`build` is the outcome of format_flare_embed) and take the
\* snapshot of the subscribers.
PollFetched(flare, build) ==
    /\ Settled
    /\ pollPc = "fetch"
    /\ IF flare.kind # "dict" THEN PollSkip(flare)
       ELSE IF ~is_m_or_x_class(FlareClassOf(flare)) THEN PollSkip(flare)
       ELSE IF ~IsNew(seen_flare_ids, FlareIdOf(flare)) THEN PollSkip(flare)
       ELSE IF build = "raise" THEN PollBuildFailed(flare)
       ELSE \E q \in ListsOf(subscribed_flares) : PollAccept(flare, q)
    /\ UNCHANGED <<envVars, digestVars, reply, pollFetches, presence, pureVars>>

\* Discord: one iteration of `for ch_id in list(self.subscribed_flares)`.
PollDeliver(chan, send) ==
    /\ Settled
    /\ adapter = "discord"
    /\ pollPc = "fanout"
    /\ LET ch_id == Head(pollQueue)
           id == FlareIdOf(pollFlare)
           embed == pollEmbed
       IN  /\ IF chan # "text"
              THEN /\ pollLog' = Append(pollLog, Entry(ch_id, "skipped", embed))
                   /\ UNCHANGED <<subscribed_flares, attempts>>
              ELSE /\ attempts[<<id, ch_id>>] < MaxAttempts
                   /\ attempts' = CountAttempts(attempts, id, {ch_id})
                   /\ IF send = "ok"
                      THEN /\ pollLog' = Append(pollLog, Entry(ch_id, "ok", embed))
                           /\ UNCHANGED subscribed_flares
                      ELSE /\ pollLog' = Append(pollLog, Entry(ch_id, "failed", embed))
                           /\ subscribed_flares' = DiscardOnFailure(subscribed_flares, ch_id)
           /\ pollQueue' = Tail(pollQueue)
           /\ pollPc' = IF Tail(pollQueue) = << >> THEN "done" ELSE "fanout"
    /\ UNCHANGED <<envVars, seen_flare_ids, subscribed_daily, last_flare_time,
                   last_daily_date, pollFlare, pollEmbed, pollSnapshot, pollFetches,
                   digestVars, reply, firedOn, presence, pureVars>>

\* The cycle is over: the task waits for the next tick, its locals are gone.
PollEnd ==
    /\ pollPc = "done"
    /\ pollPc' = "idle"
    /\ pollFlare' = NoData
    /\ pollEmbed' = NoEmbed
    /\ pollQueue' = << >>
    /\ pollSnapshot' = {}
    /\ pollLog' = << >>
    /\ pollFetches' = 0
    /\ UNCHANGED <<envVars, progVars, digestVars, reply, histVars, presence, pureVars>>

\* ------------------------------ commands --------------------------------
\* the context test answering yes to every context
IsTextContextAlways(kind) == TRUE

\* isinstance(ch, (discord.TextChannel, discord.Thread)); Slack has no check
IsTextContext(kind) == adapter = "slack" \/ kind = "text"

\* the set replaced by the new member instead of extended
SubscribeReplace(subs, ch) == {ch}

\* self.subscribed_flares.add(ch.id) / self.subscribed_daily.add(ch.id)
SubscribeAdd(subs, ch) == subs \cup {ch}

\* self.subscribed_flares.discard(ch.id) / self.subscribed_daily.discard(ch.id)
UnsubscribeDiscard(subs, ch) == subs \ {ch}

subscribe_flares_cmd(ch, kind) ==
    /\ Settled
    /\ IF ~IsTextContext(kind)
       THEN /\ reply' = [cmd |-> "subscribe_flares", ch |-> ch, text |-> "only text channels"]
            /\ UNCHANGED subscribed_flares
       ELSE /\ subscribed_flares' = SubscribeAdd(subscribed_flares, ch)
            /\ reply' = [cmd |-> "subscribe_flares", ch |-> ch, text |-> "Subscribed"]
    /\ UNCHANGED <<envVars, seen_flare_ids, subscribed_daily, last_flare_time,
                   last_daily_date, pollVars, digestVars, histVars, presence, pureVars>>

unsubscribe_flares_cmd(ch, kind) ==
    /\ Settled
    /\ IF IsTextContext(kind) /\ ch \in subscribed_flares
       THEN /\ subscribed_flares' = UnsubscribeDiscard(subscribed_flares, ch)
            /\ reply' = [cmd |-> "unsubscribe_flares", ch |-> ch, text |-> "Unsubscribed"]
       ELSE /\ reply' = [cmd |-> "unsubscribe_flares", ch |-> ch, text |-> "isn't subscribed"]
            /\ UNCHANGED subscribed_flares
    /\ UNCHANGED <<envVars, seen_flare_ids, subscribed_daily, last_flare_time,
                   last_daily_date, pollVars, digestVars, histVars, presence, pureVars>>

subscribe_daily_cmd(ch, kind) ==
    /\ Settled
    /\ IF ~IsTextContext(kind)
       THEN /\ reply' = [cmd |-> "subscribe_daily", ch |-> ch, text |-> "only text channels"]
            /\ UNCHANGED subscribed_daily
       ELSE /\ subscribed_daily' = SubscribeAdd(subscribed_daily, ch)
            /\ reply' = [cmd |-> "subscribe_daily", ch |-> ch, text |-> "Subscribed"]
    /\ UNCHANGED <<envVars, seen_flare_ids, subscribed_flares, last_flare_time,
                   last_daily_date, pollVars, digestVars, histVars, presence, pureVars>>

unsubscribe_daily_cmd(ch, kind) ==
    /\ Settled
    /\ IF IsTextContext(kind) /\ ch \in subscribed_daily
       THEN /\ subscribed_daily' = UnsubscribeDiscard(subscribed_daily, ch)
            /\ reply' = [cmd |-> "unsubscribe_daily", ch |-> ch, text |-> "Unsubscribed"]
       ELSE /\ reply' = [cmd |-> "unsubscribe_daily", ch |-> ch, text |-> "isn't subscribed"]
            /\ UNCHANGED subscribed_daily
    /\ UNCHANGED <<envVars, seen_flare_ids, subscribed_flares, last_flare_time,
                   last_daily_date, pollVars, digestVars, histVars, presence, pureVars>>

\* the reply has been sent and the command handler returns
CmdEnd ==
    /\ reply # NoReply
    /\ reply' = NoReply
    /\ UNCHANGED <<envVars, progVars, pollVars, digestVars, histVars, presence, pureVars>>

\* --------------------------- on-demand queries --------------------------
FlareQueries == {"flare_latest", "latest_flare_class"}
OtherQueries == {"flare_forecast", "flare_alerts", "latest_image", "latest_forecast"}

\* the shown record marked as seen
SeenAfterQueryMarked(seen, flare) ==
    IF flare.kind = "dict" THEN seen \cup {FlareIdOf(flare)} ELSE seen

\* the query handlers read the feed and reply; none of them touches
\* self.seen_flare_ids
SeenAfterQuery(seen, flare) == seen

\* flare_latest_cmd / latest_flare_class_cmd: fetch the latest record and
\* show it; a record that is no mapping raises in the formatter
flare_query_cmd(cmd, ch, flare) ==
    /\ Settled
    /\ seen_flare_ids' = SeenAfterQuery(seen_flare_ids, flare)
    /\ reply' = [cmd |-> cmd, ch |-> ch,
                 text |-> IF flare.kind = "none" THEN "No flare data available."
                          ELSE IF flare.kind = "other" THEN "Error" ELSE "shown"]
    /\ UNCHANGED <<envVars, subscribed_flares, subscribed_daily, last_flare_time,
                   last_daily_date, pollVars, digestVars, histVars, presence, pureVars>>

\* flare_forecast_cmd, flare_alerts_cmd, latest_image_cmd, latest_forecast_cmd
other_query_cmd(cmd, ch) ==
    /\ Settled
    /\ reply' = [cmd |-> cmd, ch |-> ch, text |-> "shown"]
    /\ UNCHANGED <<envVars, progVars, pollVars, digestVars, histVars, presence, pureVars>>

\* ------------------------------ status task -----------------------------
NoneText == <<"N", "o", "n", "e">>

\* flare.get("max_class") or flare.get("current_class", "None")
StatusClass(flare) ==
    IF flare.kind = "none" THEN NoneText
    ELSE IF OrClass(flare.max_class, flare.current_class) = NoClass THEN NoneText
    ELSE OrClass(flare.max_class, flare.current_class)

\* status_task (Discord only): fetch, format the text, change_presence; on
\* an exception the fallback presence "Solar flares"
status_task(flare) ==
    /\ Settled
    /\ adapter = "discord"
    /\ presence' = IF flare.kind = "other"
                   THEN [kind |-> "fallback", flare_class |-> NoClass]
                   ELSE [kind |-> "status", flare_class |-> StatusClass(flare)]
    /\ UNCHANGED <<envVars, progVars, pollVars, digestVars, reply, histVars, pureVars>>

\* ------------------------------ daily digest ----------------------------
\* now_est.hour == 13 (Discord), now_est.hour == 17 (Slack)
DigestHour(a) == IF a = "discord" THEN 13 ELSE 17
WindowMinutes == 5

\* if now_est.hour == ... and now_est.minute < 5
InWindow(a, t) == t.hour = DigestHour(a) /\ t.minute < WindowMinutes

\* build_daily_summary_embed(now_est): the date the summary is about
build_daily_summary(date_est) == [date_str |-> strftime_ymd(date_est)]

\* the marker left as it was
MarkerKept(marker, today) == marker

\* self._last_daily_date = today
MarkerSet(marker, today) == today

\* the decision taken without looking at the daily set
DigestDueUnsubscribed(t) ==
    /\ InWindow(adapter, t)
    /\ last_daily_date # strftime_ymd(t)

\* the tick decides to send today's digest
DigestDue(t) ==
    /\ InWindow(adapter, t)
    /\ last_daily_date # strftime_ymd(t)
    /\ subscribed_daily # {}

\* The body of the daily summary task up to its first await, entered at
\* local time t.
daily_summary_task(t) ==
    /\ Settled
    /\ MayStartCycle(digestPc)
    /\ now_est' = t
    /\ IF DigestDue(t)
       THEN /\ last_daily_date' = MarkerSet(last_daily_date, strftime_ymd(t))
            /\ firedOn' = [firedOn EXCEPT ![t.day] = @ + 1]
            /\ digestPc' = "build"
       ELSE /\ digestPc' = "done"
            /\ UNCHANGED <<last_daily_date, firedOn>>
    /\ UNCHANGED <<envVars, seen_flare_ids, subscribed_flares, subscribed_daily,
                   last_flare_time, pollVars, digestQueue, digestSnapshot, digestLog,
                   reply, attempts, presence, pureVars>>

\* A tick of the daily summary task at a later local time t.
DigestTick(t) ==
    /\ t \in Times
    /\ Before(now_est, t)
    /\ daily_summary_task(t)

\* build_daily_summary_embed / _build_daily_summary_blocks has returned or
\* raised (a feed entry that is not a dict); then the snapshot is taken.
DigestBuilt(outcome) ==
    /\ Settled
    /\ digestPc = "build"
    /\ IF outcome = "raise"
       THEN /\ digestPc' = AfterException
            /\ UNCHANGED <<digestQueue, digestSnapshot, digestLog>>
       ELSE \E q \in ListsOf(subscribed_daily) :
            /\ digestSnapshot' = Range(q)
            /\ IF adapter = "discord"
               THEN /\ digestQueue' = q
                    /\ digestLog' = << >>
                    /\ digestPc' = IF q = << >> THEN "done" ELSE "fanout"
               ELSE \E o \in [Destinations -> SlackSendOutcomes] :
                    /\ digestLog' = SlackFanout(q, o, build_daily_summary(now_est))
                    /\ digestQueue' = << >>
                    /\ digestPc' = IF Raised(digestLog') = {} THEN "done"
                                   ELSE AfterException
    /\ UNCHANGED <<envVars, progVars, pollVars, now_est, reply, histVars, presence, pureVars>>

\* Discord: one iteration of `for ch_id in list(self.subscribed_daily)`.
DigestDeliver(chan, send) ==
    /\ Settled
    /\ adapter = "discord"
    /\ digestPc = "fanout"
    /\ LET ch_id == Head(digestQueue)
           embed == build_daily_summary(now_est)
       IN  /\ IF chan # "text"
              THEN /\ digestLog' = Append(digestLog, Entry(ch_id, "skipped", embed))
                   /\ UNCHANGED <<subscribed_flares, subscribed_daily>>
              ELSE IF send = "ok"
              THEN /\ digestLog' = Append(digestLog, Entry(ch_id, "ok", embed))
                   /\ UNCHANGED <<subscribed_flares, subscribed_daily>>
              ELSE /\ digestLog' = Append(digestLog, Entry(ch_id, "failed", embed))
                   /\ subscribed_daily' = DiscardOnFailure(subscribed_daily, ch_id)
                   /\ subscribed_flares' = FlaresOnDailyFailure(subscribed_flares, ch_id)
           /\ digestQueue' = Tail(digestQueue)
           /\ digestPc' = IF Tail(digestQueue) = << >> THEN "done" ELSE "fanout"
    /\ UNCHANGED <<envVars, seen_flare_ids, last_flare_time,
                   last_daily_date, pollVars, now_est, digestSnapshot, reply,
                   histVars, presence, pureVars>>

\* The tick is over: the task waits for the next tick, its locals are gone.
DigestEnd ==
    /\ digestPc = "done"
    /\ digestPc' = "idle"
    /\ digestQueue' = << >>
    /\ digestSnapshot' = {}
    /\ digestLog' = << >>
    /\ UNCHANGED <<envVars, progVars, pollVars, now_est, reply, histVars, presence, pureVars>>

\* --------------------------- specifications -----------------------------
ChannelKinds == {"text", "gone"}
SendResults == {"ok", "raise"}
BuildResults == {"ok", "raise"}
ContextKinds == {"text", "dm"}

Next ==
    \/ PollTick
    \/ \E flare \in FetchResults, build \in BuildResults : PollFetched(flare, build)
    \/ \E chan \in ChannelKinds, send \in SendResults : PollDeliver(chan, send)
    \/ PollEnd
    \/ \E t \in Times : DigestTick(t)
    \/ \E outcome \in BuildResults : DigestBuilt(outcome)
    \/ \E chan \in ChannelKinds, send \in SendResults : DigestDeliver(chan, send)
    \/ DigestEnd
    \/ \E ch \in Destinations, kind \in ContextKinds : subscribe_flares_cmd(ch, kind)
    \/ \E ch \in Destinations, kind \in ContextKinds : unsubscribe_flares_cmd(ch, kind)
    \/ \E ch \in Destinations, kind \in ContextKinds : subscribe_daily_cmd(ch, kind)
    \/ \E ch \in Destinations, kind \in ContextKinds : unsubscribe_daily_cmd(ch, kind)
    \/ \E cmd \in FlareQueries, ch \in Destinations, flare \in FetchResults :
          flare_query_cmd(cmd, ch, flare)
    \/ \E cmd \in OtherQueries, ch \in Destinations : other_query_cmd(cmd, ch)
    \/ \E flare \in FetchResults : status_task(flare)
    \/ CmdEnd

Spec == Init /\ [][Next]_vars

\* Every handler of the program, with the commands issued from one text
\* channel and the digest ticks at the first minute of each hour.
FirstDest == {1}
TickTimes == {t \in Times : t.minute = 0}
NextAll ==
    \/ PollTick
    \/ \E flare \in FetchResults, build \in BuildResults : PollFetched(flare, build)
    \/ \E chan \in ChannelKinds, send \in SendResults : PollDeliver(chan, send)
    \/ PollEnd
    \/ \E t \in TickTimes : DigestTick(t)
    \/ \E outcome \in BuildResults : DigestBuilt(outcome)
    \/ \E chan \in ChannelKinds, send \in SendResults : DigestDeliver(chan, send)
    \/ DigestEnd
    \/ \E ch \in FirstDest : subscribe_flares_cmd(ch, "text")
    \/ \E ch \in FirstDest : unsubscribe_flares_cmd(ch, "text")
    \/ \E ch \in FirstDest : subscribe_daily_cmd(ch, "text")
    \/ \E ch \in FirstDest : unsubscribe_daily_cmd(ch, "text")
    \/ \E cmd \in FlareQueries, ch \in FirstDest, flare \in FetchResults :
          flare_query_cmd(cmd, ch, flare)
    \/ \E cmd \in OtherQueries, ch \in FirstDest : other_query_cmd(cmd, ch)
    \/ \E flare \in FetchResults : status_task(flare)
    \/ CmdEnd

SpecAll == Init /\ [][NextAll]_vars

\* the flare poll task and the commands on the flare subscriber set
NextPoll ==
    \/ PollTick
    \/ \E flare \in FetchResults, build \in BuildResults : PollFetched(flare, build)
    \/ \E chan \in ChannelKinds, send \in SendResults : PollDeliver(chan, send)
    \/ PollEnd
    \/ \E ch \in Destinations, kind \in ContextKinds : subscribe_flares_cmd(ch, kind)
    \/ \E ch \in Destinations, kind \in ContextKinds : unsubscribe_flares_cmd(ch, kind)
    \/ CmdEnd

SpecPoll == Init /\ [][NextPoll]_vars

\* the daily summary task and the commands on the daily subscriber set
NextDigest ==
    \/ \E t \in Times : DigestTick(t)
    \/ \E outcome \in BuildResults : DigestBuilt(outcome)
    \/ \E chan \in ChannelKinds, send \in SendResults : DigestDeliver(chan, send)
    \/ DigestEnd
    \/ \E ch \in Destinations, kind \in ContextKinds : subscribe_daily_cmd(ch, kind)
    \/ \E ch \in Destinations, kind \in ContextKinds : unsubscribe_daily_cmd(ch, kind)
    \/ CmdEnd

SpecDigest == Init /\ [][NextDigest]_vars

\* the four subscription commands alone
NextCmd ==
    \/ \E ch \in Destinations, kind \in ContextKinds : subscribe_flares_cmd(ch, kind)
    \/ \E ch \in Destinations, kind \in ContextKinds : unsubscribe_flares_cmd(ch, kind)
    \/ \E ch \in Destinations, kind \in ContextKinds : subscribe_daily_cmd(ch, kind)
    \/ \E ch \in Destinations, kind \in ContextKinds : unsubscribe_daily_cmd(ch, kind)
    \/ CmdEnd

SpecCmd == Init /\ [][NextCmd]_vars

\* ---------------------------- the classifier ----------------------------
ClassStrings == UNION {[1..n -> Chars] : n \in 0..MaxLen}

InitParse ==
    /\ InitProgram
    /\ clsInput \in ClassStrings
    /\ clsResult = NoResult
    /\ alertsArg = NoCall
    /\ alertsResult = NoReturn
    /\ forecastArg = NoBuild
    /\ forecastResult = NoChoice
    /\ InitExtra

\* parse_flare_class and is_m_or_x_class applied to clsInput
Classify ==
    /\ ~clsResult.done
    /\ clsResult' = [parsed |-> parse_flare_class(clsInput),
                     qualifies |-> is_m_or_x_class(clsInput),
                     done |-> TRUE]
    /\ UNCHANGED <<envVars, progVars, pollVars, digestVars, reply, histVars, presence,
                   clsInput, alertVars, forecastVars,
                   pairVars, callVars>>

NextParse == Classify

SpecParse == InitParse /\ [][NextParse]_vars

\* ------------------------------ properties ------------------------------
\* the poll cycle has just received the fetched record
FetchReturned == pollPc = "fetch" /\ pollPc' # "fetch"
Qualifying(flare) == flare.kind = "dict" /\ parse_flare_class(FlareClassOf(flare)).letter \in {"M", "X"}
\* entries the step has added to the poll log
NewPollEntries == IF Len(pollLog') > Len(pollLog) THEN SubSeq(pollLog', Len(pollLog) + 1, Len(pollLog')) ELSE << >>

\* C1: for every event id and every destination, at most one delivery
\* attempt of that event to that destination is ever made, in both adapters.
C1_AtMostOnePerDestination == \A p \in DOMAIN attempts : attempts[p] <= 1

\* a later cycle fetched an already notified record while both destinations
\* it was sent to are still subscribed, and sent nothing
C1_Witness ==
    /\ pollPc = "done" /\ Qualifying(pollFlare) /\ pollLog = << >>
    /\ subscribed_flares = Destinations
    /\ \A ch \in Destinations : attempts[<<FlareIdOf(pollFlare), ch>>] = 1

C3_SeenOnlyGrows ==
    [][/\ seen_flare_ids \subseteq seen_flare_ids'
       /\ \A id \in seen_flare_ids' \ seen_flare_ids :
            FetchReturned /\ Qualifying(pollFlare') /\ id = FlareIdOf(pollFlare')]_vars

\* one id is seen, another is not, and a cycle has just found the seen one
\* not new
C3_Witness ==
    /\ Cardinality(seen_flare_ids) = 1
    /\ pollPc = "done" /\ Qualifying(pollFlare) /\ pollLog = << >>
    /\ FlareIdOf(pollFlare) \in seen_flare_ids
    /\ ~IsNew(seen_flare_ids, FlareIdOf(pollFlare))
    /\ \E id \in FlareIds : IsNew(seen_flare_ids, id)

\* C4: a cycle whose fetched record does not qualify (letter B or C,
\* unparseable or missing class) makes no delivery and leaves the seen set
\* unchanged, whatever the seen set and the subscriber set contain.
C4_NonQualifyingSkipped ==
    [][FetchReturned /\ pollFlare'.kind = "dict" /\ ~Qualifying(pollFlare')
       => /\ seen_flare_ids' = seen_flare_ids
          /\ attempts' = attempts
          /\ pollLog' = << >>
          /\ pollPc' = "done"]_vars

\* a C-class record was fetched and skipped while events are seen and every
\* destination is subscribed
C4_Witness ==
    /\ pollPc = "done" /\ pollFlare.kind = "dict"
    /\ parse_flare_class(FlareClassOf(pollFlare)).letter = "C"
    /\ seen_flare_ids # {} /\ subscribed_flares = Destinations

\* the string begins with m, M, x or X followed by a digit
StartsWithMXDigit(s) ==
    Len(s) >= 2 /\ s[1] \in {"M", "m", "X", "x"} /\ s[2] \in Digits

\* C5: is_m_or_x_class(s) is true exactly when the parsed letter is M or X,
\* that is when s begins with M or X (either case) followed by a digit, and
\* false for the letters B and C and for the none result.
C5_QualifiesIffMX ==
    clsResult.done =>
        /\ clsResult.qualifies <=> clsResult.parsed.letter \in {"M", "X"}
        /\ clsResult.qualifies <=> StartsWithMXDigit(clsInput)
        /\ clsResult.parsed.letter \in {"B", "C", None} => ~clsResult.qualifies

\* a lower-case x class qualifies
C5_Witness ==
    clsResult.done /\ clsResult.qualifies /\ Len(clsInput) = MaxLen /\ clsInput[1] = "x"

\* C6: parse_flare_class returns (letter, magnitude) with letter in
\* {B, C, M, X} and magnitude >= 0, or (None, None); the letter is matched
\* only at the start of the string, case-insensitively, and must be
\* followed by a digit.
C6_ParseShape ==
    clsResult.done =>
      LET r == clsResult.parsed
          s == clsInput
          atStart == Len(s) >= 2 /\ s[1] \in {"C", "M", "b", "x"} /\ s[2] \in Digits
      IN  /\ r = NoMatch \/ (r.letter \in {"B", "C", "M", "X"} /\ r.num >= 0 /\ r.den >= 1)
          /\ r # NoMatch <=> atStart
          /\ r # NoMatch => r.letter = Upper(s[1])

\* a class letter and digit that are not at the start give the none result
C6_Witness ==
    /\ clsResult.done /\ clsResult.parsed = NoMatch
    /\ Len(clsInput) >= 3 /\ clsInput[1] = "Z" /\ clsInput[2] = "M" /\ clsInput[3] \in Digits

\* C7: in one fan-out a delivery failure for one destination never prevents
\* the visit of the remaining destinations of the snapshot (flare fan-out
\* and digest fan-out, both adapters): a finished fan-out has visited every
\* destination of its snapshot.
C7_FailureIsolated ==
    /\ pollPc = "done" => Visited(pollLog) = pollSnapshot
    /\ digestPc = "done" => Visited(digestLog) = digestSnapshot

\* C8: in a fan-out step only destinations whose delivery failed leave the
\* subscriber set (a destination that received the message stays), no
\* destination is added, and in the Discord adapter a destination whose
\* delivery failed is removed by that single failure.
C8_OnlyFailedRemoved ==
    [][NewPollEntries # << >>
       => /\ subscribed_flares' \subseteq subscribed_flares
          /\ (subscribed_flares \ subscribed_flares') \subseteq Failed(NewPollEntries)
          /\ Received(NewPollEntries) \cap subscribed_flares \subseteq subscribed_flares'
          /\ adapter = "discord" => Failed(NewPollEntries) \cap subscribed_flares' = {}]_vars

\* Discord: of two destinations delivery to 1 failed and delivery to 2
\* succeeded; 1 is removed, 2 stays
C8_Witness ==
    /\ adapter = "discord" /\ pollPc = "done"
    /\ pollSnapshot = {1, 2}
    /\ Failed(pollLog) = {1} /\ Received(pollLog) = {2}
    /\ subscribed_flares = {2}

\* C9: a subscribe of a member leaves the set unchanged, a subscribe of a
\* non-member adds exactly it, an unsubscribe of a non-member leaves the
\* set unchanged and is answered "isn't subscribed", an unsubscribe of a
\* member is answered "Unsubscribed"; for the flare set and the daily set.
CmdSet(cmd, f, d) == IF cmd \in {"subscribe_flares", "unsubscribe_flares"} THEN f ELSE d
C9_SubscriptionIdempotent ==
    [][reply = NoReply /\ reply' # NoReply
       => LET c == reply'.cmd
              ch == reply'.ch
              old == CmdSet(c, subscribed_flares, subscribed_daily)
              new == CmdSet(c, subscribed_flares', subscribed_daily')
          IN  IF c \in {"subscribe_flares", "subscribe_daily"}
              THEN /\ ch \in old => new = old
                   /\ reply'.text = "Subscribed" => new = old \cup {ch}
                   /\ reply'.text # "Subscribed" => new = old
              ELSE /\ ch \notin old => new = old /\ reply'.text = "isn't subscribed"
                   /\ ch \in old /\ reply'.text = "Unsubscribed" => new = old \ {ch}
                   /\ reply'.text = "Unsubscribed" => ch \in old]_vars

\* a destination that is not a daily subscriber was told so while another
\* destination is subscribed
C9_Witness ==
    /\ reply.cmd = "unsubscribe_daily" /\ reply.text = "isn't subscribed"
    /\ reply.ch \notin subscribed_daily /\ subscribed_daily # {}
    /\ subscribed_flares = Destinations

\* C10: with a digest subscriber, a tick inside the window fires exactly
\* when no digest has fired on that local date yet, and a firing tick sets
\* the marker to the date; so the digest fires at most once per date, not
\* again in the same window, and again in the window of the next date.
C10_OncePerDate ==
    /\ [](\A d \in 0..MaxDate : firedOn[d] <= 1)
    /\ [][now_est' # now_est /\ InWindow(adapter, now_est') /\ subscribed_daily # {}
          => IF firedOn[now_est'.day] = 0
             THEN /\ firedOn' = [firedOn EXCEPT ![now_est'.day] = 1]
                  /\ last_daily_date' = strftime_ymd(now_est')
                  /\ digestPc' = "build"
             ELSE /\ firedOn' = firedOn
                  /\ last_daily_date' = last_daily_date
                  /\ digestPc' = "done"]_vars

\* the digest fired on day 0 and on day 1, and a second tick in the window
\* of day 1 did not fire
C10_Witness ==
    /\ firedOn[0] = 1 /\ firedOn[1] = 1
    /\ now_est.day = 1 /\ InWindow(adapter, now_est) /\ now_est.minute > 0
    /\ digestPc = "done" /\ subscribed_daily # {}
    /\ last_daily_date = strftime_ymd(now_est)

\* C11 as claimed: in both adapters the daily summary fires only on a tick
\* whose local hour is 17 and whose minute is below 5, and on no tick at any
\* other hour.
C11_FiresOnlyAtFivePm ==
    [][firedOn' # firedOn => now_est'.hour = 17 /\ now_est'.minute < 5]_vars

\* C12: once the digest has decided to fire on a local date, the marker
\* equals that date for the rest of the tick and of the date, whether the
\* summary was built or not and whatever the deliveries did, and the digest
\* has fired on that date exactly once.
C12_MarkerSetWhenFired ==
    \A d \in 0..MaxDate :
        firedOn[d] >= 1 /\ now_est.day = d
            => last_daily_date = DateStr[d + 1] /\ firedOn[d] = 1

\* the firing tick is over, building the summary raised, nothing was
\* delivered, and the marker is the date of the tick
C12_Witness ==
    /\ digestPc = "done" /\ InWindow(adapter, now_est) /\ now_est.minute = 0
    /\ firedOn[now_est.day] = 1
    /\ subscribed_daily # {} /\ digestSnapshot = {} /\ digestLog = << >>
    /\ last_daily_date = strftime_ymd(now_est)

\* ------------------------- the two scheduler loops ----------------------
\* The poll task and the digest task with the commands that give them a
\* subscriber.  The event loop runs every ready handler (its ready queue is
\* FIFO), the fetch has a timeout and the timers always expire: each step of
\* a task that is possible again and again is eventually taken.
NextLoops ==
    \/ PollTick
    \/ \E flare \in FetchResults, build \in BuildResults : PollFetched(flare, build)
    \/ \E chan \in ChannelKinds, send \in SendResults : PollDeliver(chan, send)
    \/ PollEnd
    \/ \E t \in TickTimes : DigestTick(t)
    \/ \E outcome \in BuildResults : DigestBuilt(outcome)
    \/ \E chan \in ChannelKinds, send \in SendResults : DigestDeliver(chan, send)
    \/ DigestEnd
    \/ \E ch \in FirstDest : subscribe_flares_cmd(ch, "text")
    \/ \E ch \in FirstDest : subscribe_daily_cmd(ch, "text")
    \/ CmdEnd

SpecLoops ==
    /\ Init /\ [][NextLoops]_vars
    /\ SF_vars(PollTick)
    /\ SF_vars(\E flare \in FetchResults, build \in BuildResults : PollFetched(flare, build))
    /\ SF_vars(\E chan \in ChannelKinds, send \in SendResults : PollDeliver(chan, send))
    /\ SF_vars(PollEnd)
    /\ SF_vars(\E t \in TickTimes : DigestTick(t))
    /\ SF_vars(\E outcome \in BuildResults : DigestBuilt(outcome))
    /\ SF_vars(\E chan \in ChannelKinds, send \in SendResults : DigestDeliver(chan, send))
    /\ SF_vars(DigestEnd)
    /\ WF_vars(CmdEnd)

\* C13: whatever the fetch returned and whatever the deliveries did, a poll
\* cycle and a digest tick that have started return to idle, and after idle
\* the next tick starts (the digest: as long as the modelled clock has a
\* later tick).
C13_LoopsGoOn ==
    /\ (pollPc # "idle") ~> (pollPc = "idle")
    /\ (digestPc # "idle") ~> (digestPc = "idle")
    /\ (pollPc = "idle") ~> (pollPc # "idle")
    /\ (digestPc = "idle" /\ \E t \in TickTimes : Before(now_est, t)) ~> (digestPc # "idle")

\* Discord: a delivery of an earlier cycle failed (the only subscriber was
\* dropped after its one send), and a later tick has run
C13_Witness ==
    /\ adapter = "discord" /\ pollPc = "done" /\ pollFetches = 0
    /\ subscribed_flares = {} /\ seen_flare_ids # {}
    /\ \E id \in seen_flare_ids : attempts[<<id, 1>>] = 1

\* C14: a poll cycle that starts while no destination is flare-subscribed
\* issues no feed fetch, makes no delivery and changes neither the seen set,
\* the subscriber sets, the markers nor the delivery history, up to and
\* including its return to idle.
C14_NoSubscribersNoWork ==
    /\ [][pollPc = "idle" /\ pollPc' # "idle" /\ subscribed_flares = {}
            => /\ pollPc' = "done" /\ pollFetches' = 0
               /\ pollFlare' = NoData /\ pollLog' = << >>
               /\ UNCHANGED <<progVars, histVars>>]_vars
    /\ [][pollFetches = 0 /\ pollPc = "done" /\ pollPc' # "done"
            => pollPc' = "idle" /\ UNCHANGED <<progVars, histVars>>]_vars
    /\ [](pollFetches = 0 => pollPc \in {"idle", "done"} /\ pollLog = << >>)

\* a cycle started with the subscriber set empty has returned, after an
\* earlier cycle had accepted an event
C14_Witness ==
    /\ pollPc = "done" /\ pollFetches = 0
    /\ subscribed_flares = {} /\ seen_flare_ids # {}

\* C15 as claimed: an id enters the seen set only in a step in which the
\* message for the event has been built, and a cycle that fetched a
\* qualifying record but built no message leaves the seen set as it was.
C15_SeenOnlyAfterBuilt ==
    /\ [][seen_flare_ids' # seen_flare_ids => pollEmbed' # NoEmbed]_vars
    /\ [][FetchReturned /\ Qualifying(pollFlare') /\ pollEmbed' = NoEmbed
            => seen_flare_ids' = seen_flare_ids]_vars

C17_SeenOnlyByAccept ==
    /\ [][seen_flare_ids' # seen_flare_ids
            => /\ FetchReturned /\ Qualifying(pollFlare')
               /\ seen_flare_ids' = seen_flare_ids \cup {FlareIdOf(pollFlare')}]_vars
    /\ [][reply' # reply \/ digestVars' # digestVars \/ presence' # presence
            => seen_flare_ids' = seen_flare_ids]_vars
    /\ [][reply = NoReply /\ reply'.cmd \in FlareQueries /\ reply'.text = "shown"
            => \A r \in FlareRecords :
                 IsNew(seen_flare_ids', FlareIdOf(r)) = IsNew(seen_flare_ids, FlareIdOf(r))]_vars

\* a flare query has shown a record while a poll cycle with a subscriber is
\* waiting for its fetch and no event has been accepted yet
C17_Witness ==
    /\ reply.cmd = "flare_latest" /\ reply.text = "shown"
    /\ pollPc = "fetch" /\ subscribed_flares = {1} /\ seen_flare_ids = {}

\* C18 as claimed: the flare and the daily subscriber set change only in a
\* step of a subscribe or unsubscribe command.
C18_SubscribersOnlyByCommands ==
    /\ [][subscribed_flares' # subscribed_flares
            => reply = NoReply
               /\ reply'.cmd \in {"subscribe_flares", "unsubscribe_flares"}]_vars
    /\ [][subscribed_daily' # subscribed_daily
            => reply = NoReply
               /\ reply'.cmd \in {"subscribe_daily", "unsubscribe_daily"}]_vars

\* the entries the step has appended to the log of the running digest
NewDigestEntries ==
    IF Len(digestLog') > Len(digestLog)
    THEN SubSeq(digestLog', Len(digestLog) + 1, Len(digestLog')) ELSE << >>

\* C18 amended: a subscriber set changes only in a step of a subscribe or
\* unsubscribe command for that set, or in a Discord fan-out step whose send
\* failed, which removes exactly the destination of that send from the set
\* the fan-out runs over; no other step of a poll cycle, of a digest tick,
\* of a query or of the status task changes either set, and the Slack
\* adapter changes them by commands only.
C18_SubscribersByCommandsOrFailedSend ==
    /\ [][subscribed_flares' # subscribed_flares
            => \/ reply = NoReply
                  /\ reply'.cmd \in {"subscribe_flares", "unsubscribe_flares"}
               \/ adapter = "discord" /\ pollPc = "fanout"
                  /\ Failed(NewPollEntries) = {Head(pollQueue)}]_vars
    /\ [][subscribed_daily' # subscribed_daily
            => \/ reply = NoReply
                  /\ reply'.cmd \in {"subscribe_daily", "unsubscribe_daily"}
               \/ adapter = "discord" /\ digestPc = "fanout"
                  /\ Failed(NewDigestEntries) = {Head(digestQueue)}]_vars
    /\ [][adapter = "discord" /\ Failed(NewPollEntries) # {}
            => /\ subscribed_flares' = subscribed_flares \ Failed(NewPollEntries)
               /\ subscribed_daily' = subscribed_daily]_vars
    /\ [][adapter = "discord" /\ Failed(NewDigestEntries) # {}
            => /\ subscribed_daily' = subscribed_daily \ Failed(NewDigestEntries)
               /\ subscribed_flares' = subscribed_flares]_vars

\* Discord: the poll fan-out has dropped the only flare subscriber after its
\* send failed, and that destination is still subscribed to the digest
C18_Witness ==
    /\ adapter = "discord" /\ pollPc = "done"
    /\ pollSnapshot = {1} /\ Failed(pollLog) = {1}
    /\ subscribed_flares = {} /\ subscribed_daily = {1}

\* C19: a poll cycle starts, and issues its one fetch, only while no poll
\* cycle is in progress, and a digest tick starts only while no digest tick
\* is in progress; a cycle in progress is left only by its own steps.
C19_NoOverlap ==
    /\ [][pollPc' = "fetch" /\ pollPc # "fetch" => pollPc = "idle"]_vars
    /\ [][pollFetches' > pollFetches => pollPc = "idle" /\ pollFetches' = 1]_vars
    /\ [][now_est' # now_est => digestPc = "idle" /\ digestPc' # "idle"]_vars
    /\ [][digestPc' \in {"build"} /\ digestPc # "build" => digestPc = "idle"]_vars
    /\ [](pollFetches <= 1)

\* Discord: a poll cycle and a digest tick are both in the middle of their
\* fan-out, each the only cycle of its scheduler
C19_Witness ==
    /\ adapter = "discord" /\ pollPc = "fanout" /\ digestPc = "fanout"
    /\ pollFetches = 1 /\ firedOn[now_est.day] = 1

\* ------------------------------ fetch_alerts ----------------------------
MaxAlerts == 3      \* longest alert list the feed returns
MaxLimit == 3       \* largest limit given to fetch_alerts

\* a text is the sequence of its words; the empty text stands for a missing,
\* null or empty field, which `or` treats alike
Words == {"Flare", "X-ray", "XRAY", "storm"}
NoText == << >>
\* str.lower()
LowerWord(w) ==
    CASE w = "Flare" -> "flare"
      [] w = "X-ray" -> "x-ray"
      [] w = "XRAY" -> "xray"
      [] OTHER -> w
Lower(text) == [i \in 1..Len(text) |-> LowerWord(text[i])]
FlareTerms == {"flare", "x-ray", "xray"}

Alert(message, summary) == [kind |-> "dict", message |-> message, summary |-> summary]
NotADict == [kind |-> "other", message |-> NoText, summary |-> NoText]
AlertRecords ==
    { Alert(<<"Flare">>, NoText),
      Alert(NoText, <<"X-ray">>),
      Alert(<<"XRAY">>, <<"storm">>),
      Alert(<<"storm">>, <<"Flare">>),
      Alert(NoText, NoText),
      NotADict }

\* (a.get("message") or a.get("summary") or "").lower()
AlertText(a) == Lower(IF a.message # NoText THEN a.message ELSE a.summary)
\* "flare" in msg or "x-ray" in msg or "xray" in msg
MentionsFlare(a) == \E i \in 1..Len(AlertText(a)) : AlertText(a)[i] \in FlareTerms

\* q[-n:] for n >= 0: -0 is 0, so the slice of limit 0 is the whole list
LastSlice(q, n) ==
    IF n = 0 THEN q
    ELSE IF n >= Len(q) THEN q
    ELSE SubSeq(q, Len(q) - n + 1, Len(q))

\* the payloads http.get_json gives: a list, another JSON value, or it raises
AlertPayloads ==
    {[kind |-> "list", arr |-> arr] : arr \in UNION {[1..n -> AlertRecords] : n \in 0..MaxAlerts}}
      \cup {[kind |-> "other", arr |-> << >>], [kind |-> "error", arr |-> << >>]}

\* fetch_alerts(limit) when the feed gives `payload`; an element that is no
\* mapping raises at a.get, and the except clause returns []
fetch_alerts(payload, limit) ==
    IF payload.kind = "error" THEN << >>
    ELSE IF payload.kind # "list" THEN << >>
    ELSE IF \E i \in 1..Len(payload.arr) : payload.arr[i].kind # "dict" THEN << >>
    ELSE LastSlice(SelectSeq(payload.arr, MentionsFlare), limit)

InitAlerts ==
    /\ InitProgram
    /\ clsInput = NoClass
    /\ clsResult = NoResult
    /\ \E payload \in AlertPayloads, limit \in 0..MaxLimit :
         alertsArg = [kind |-> payload.kind, arr |-> payload.arr, limit |-> limit]
    /\ alertsResult = NoReturn
    /\ forecastArg = NoBuild
    /\ forecastResult = NoChoice
    /\ InitExtra

\* the call returns
FetchAlertsReturn ==
    /\ ~alertsResult.done
    /\ alertsResult' = [done |-> TRUE, value |-> fetch_alerts(alertsArg, alertsArg.limit)]
    /\ UNCHANGED <<envVars, progVars, pollVars, digestVars, reply, histVars, presence,
                   clsVars, alertsArg, forecastVars,
                   pairVars, callVars>>

NextAlerts == FetchAlertsReturn

SpecAlerts == InitAlerts /\ [][NextAlerts]_vars

\* the last n elements of q, all of q when it has fewer
LastOf(q, n) == SubSeq(q, IF n >= Len(q) THEN 1 ELSE Len(q) - n + 1, Len(q))

MaxForecast == 4    \* longest forecast list the feed returns
ForecastDays == 3   \* data[:3]

\* a date field is the sequence of its parts: a calendar date, the letter T,
\* a time of day; the empty sequence is a missing or empty field
ForecastEntry(date, m) == [date |-> date, m_class_1_day |-> m]
ForecastEntries ==
    { ForecastEntry(<<DateStr[1]>>, 10),
      ForecastEntry(<<DateStr[1], "T", "00:00:00Z">>, 42),
      ForecastEntry(<<DateStr[2], "T", "00:00:00Z">>, 10),
      ForecastEntry(<<DateStr[2]>>, 42),
      ForecastEntry(<<DateStr[1], " 00:00">>, 10),
      ForecastEntry(<< >>, 42) }

\* fetch_flare_forecast: data[:3]
fetch_flare_forecast(data) ==
    IF Len(data) <= ForecastDays THEN data ELSE SubSeq(data, 1, ForecastDays)

\* day_date.split("T")[0] when "T" in day_date
SplitAtT(day_date) ==
    LET ts == {i \in 1..Len(day_date) : day_date[i] = "T"}
    IN  IF ts = {} THEN day_date
        ELSE SubSeq(day_date, 1, (CHOOSE i \in ts : \A j \in ts : i <= j) - 1)

\* the first entry of the list, whatever its date
today_forecast_first(forecast_data, date_str) ==
    IF forecast_data = << >> THEN NoEntry ELSE forecast_data[1]

\* the loop with break over forecast_data and the fallback to forecast_data[0]
today_forecast(forecast_data, date_str) ==
    LET hits == {i \in 1..Len(forecast_data) :
                    SplitAtT(forecast_data[i].date) = <<date_str>>}
    IN  IF forecast_data = << >> THEN NoEntry
        ELSE IF hits # {} THEN forecast_data[CHOOSE i \in hits : \A j \in hits : i <= j]
        ELSE forecast_data[1]

InitForecast ==
    /\ InitProgram
    /\ clsInput = NoClass
    /\ clsResult = NoResult
    /\ alertsArg = NoCall
    /\ alertsResult = NoReturn
    /\ \E arr \in UNION {[1..n -> ForecastEntries] : n \in 0..MaxForecast},
          date \in 0..MaxDate :
         forecastArg = [arr |-> arr, date |-> date]
    /\ forecastResult = NoChoice
    /\ InitExtra

\* build_daily_summary_embed up to the choice of today_forecast
ChooseForecast ==
    /\ ~forecastResult.done
    /\ forecastResult' =
         [done |-> TRUE,
          today_forecast |-> today_forecast(fetch_flare_forecast(forecastArg.arr),
                                            DateStr[forecastArg.date + 1])]
    /\ UNCHANGED <<envVars, progVars, pollVars, digestVars, reply, histVars, presence,
                   clsVars, alertVars, forecastArg,
                   pairVars, callVars>>

NextForecast == ChooseForecast

SpecForecast == InitForecast /\ [][NextForecast]_vars

\* the date field d names the date D: it is D, or D followed by T and more
NamesDate(d, D) == Len(d) >= 1 /\ d[1] = D /\ (Len(d) = 1 \/ d[2] = "T")

\* C21: of the forecast list the build works on (the first three entries of
\* the feed), the entry chosen for local date D is the first whose date
\* field names D; if none does it is the first entry; of an empty list no
\* entry is chosen.
C21_TodayForecast ==
    forecastResult.done =>
      LET f == fetch_flare_forecast(forecastArg.arr)
          D == DateStr[forecastArg.date + 1]
          c == forecastResult.today_forecast
      IN  /\ f = << >> => c = NoEntry
          /\ \A i \in 1..Len(f) :
               NamesDate(f[i].date, D) /\ (\A j \in 1..(i - 1) : ~NamesDate(f[j].date, D))
                 => c = f[i]
          /\ f # << >> /\ (\A i \in 1..Len(f) : ~NamesDate(f[i].date, D)) => c = f[1]

\* the second entry is chosen: the first is for another date, the second
\* names D with a time part, and the third names D as well
C21_Witness ==
    /\ forecastResult.done /\ Len(forecastArg.arr) >= 3
    /\ LET f == forecastArg.arr
           D == DateStr[forecastArg.date + 1]
       IN  /\ ~NamesDate(f[1].date, D) /\ f[2].date = <<D, "T", "00:00:00Z">>
           /\ f[3].date = <<D>>
           /\ forecastResult.today_forecast = f[2]

\* ------------------------------- startup --------------------------------
\* the bot started whether or not the credential is there
StartOutcomeAlways(tok) == "running"

\* Discord amain: `if not token: raise SystemExit(...)` before client.start,
\* which runs setup_hook; Slack: FlareSlackBot.__init__ raises SystemExit
\* before start() is called
StartOutcome(tok) == IF tok THEN "running" ELSE "exited"

\* a start() that creates the tasks whether or not there is a socket client
start_without_client(a, app_tok) == [process |-> "running", tasks |-> BothTasks]

\* Discord setup_hook starts both tasks; Slack start() creates them only
\* `if self.socket_client`, which __init__ builds only `if self.app_token`:
\* without it the process stays alive ("idle") with nothing scheduled and
\* no command handler connected
start(a, app_tok) ==
    IF a = "discord" \/ app_tok
    THEN [process |-> "running", tasks |-> BothTasks]
    ELSE [process |-> "idle", tasks |-> NoTasks]

amain ==
    /\ process = "boot"
    /\ IF StartOutcome(token) = "exited"
       THEN /\ process' = "exited"
            /\ UNCHANGED tasks
       ELSE /\ process' = start(adapter, app_token).process
            /\ tasks' = [t \in DOMAIN tasks |-> tasks[t] + start(adapter, app_token).tasks[t]]
    /\ UNCHANGED <<adapter, token, app_token, progVars, pollVars, digestVars, reply,
                   histVars, presence, pureVars>>

InitBoot ==
    /\ InitState
    /\ token \in BOOLEAN
    /\ app_token \in BOOLEAN
    /\ process = "boot"
    /\ tasks = NoTasks
    /\ clsInput = NoClass
    /\ clsResult = NoResult
    /\ alertsArg = NoCall
    /\ alertsResult = NoReturn
    /\ forecastArg = NoBuild
    /\ forecastResult = NoChoice
    /\ InitExtra

\* startup, then the two scheduler tasks and the commands that give them a
\* subscriber
NextBoot ==
    \/ amain
    \/ NextLoops

SpecBoot == InitBoot /\ [][NextBoot]_vars

\* C22: in a run without the credential the process exits at startup, and
\* neither a poll cycle nor a digest tick nor a fetch ever happens: both
\* tasks stay idle and the state stays as constructed; with the credential
\* nothing runs before startup is over either.
C22_NoTokenNoScheduling ==
    /\ [](~token => process \in {"boot", "exited"})
    /\ [](process # "running"
            => /\ pollPc = "idle" /\ pollFetches = 0
               /\ digestPc = "idle" /\ now_est = [day |-> 0, hour |-> 0, minute |-> 0]
               /\ seen_flare_ids = {} /\ last_daily_date = None
               /\ \A d \in 0..MaxDate : firedOn[d] = 0
               /\ \A p \in DOMAIN attempts : attempts[p] = 0)
    /\ [][process = "exited" => UNCHANGED vars]_vars

\* the run without the credential has exited
C22_Witness == ~token /\ process = "exited"

\* ----------------------- one record stays the latest --------------------
\* The feed's latest record stays the same qualifying record; a fetch may
\* fail, but again and again it succeeds, and so do the sends.
LatestFlare == Rec(<<"M", "1", ".", "5">>, NoClass, "T2", None, None)
LatestResults == {LatestFlare, NoData}

NextLatest ==
    \/ PollTick
    \/ \E flare \in LatestResults, build \in BuildResults : PollFetched(flare, build)
    \/ \E chan \in ChannelKinds, send \in SendResults : PollDeliver(chan, send)
    \/ PollEnd
    \/ \E ch \in Destinations : subscribe_flares_cmd(ch, "text")
    \/ CmdEnd

SpecLatest ==
    /\ Init /\ [][NextLatest]_vars
    /\ SF_vars(PollTick)
    /\ SF_vars(\E build \in BuildResults : PollFetched(LatestFlare, build))
    /\ SF_vars(\E chan \in ChannelKinds, send \in SendResults : PollDeliver(chan, send))
    /\ SF_vars(PollDeliver("text", "ok"))
    /\ SF_vars(PollEnd)
    /\ WF_vars(CmdEnd)

MinutesPerHour == 60
HoursPerDay == 24
LoopMinutes == 5

\* datetime arithmetic on the local clock (no clock change inside the days)
MinuteOfDay(t) == t.hour * MinutesPerHour + t.minute
AddMinutes(t, n) ==
    LET total == MinuteOfDay(t) + n
        inDay == total % (HoursPerDay * MinutesPerHour)
    IN  [day    |-> t.day + total \div (HoursPerDay * MinutesPerHour),
         hour   |-> inDay \div MinutesPerHour,
         minute |-> inDay % MinutesPerHour]

\* The minute shown by the clock at the next tick, one period after a tick
\* at minute t. Discord's tasks.loop(minutes=5) keeps a fixed interval;
\* Slack sleeps 300 seconds after the tick's work, so its period is longer
\* than 300 seconds and the minute shown is 5 or 6 later.
NextTickTimes(a, t) ==
    IF a = "discord" THEN {AddMinutes(t, LoopMinutes)}
    ELSE {AddMinutes(t, LoopMinutes), AddMinutes(t, LoopMinutes + 1)}

\* The task has ticked for the first time shortly after midnight of day 0,
\* with one destination digest-subscribed.
InitCadence ==
    /\ adapter \in Adapters /\ token = TRUE /\ process = "running"
    /\ app_token = TRUE /\ tasks = BothTasks
    /\ seen_flare_ids = {} /\ subscribed_flares = {} /\ subscribed_daily = FirstDest
    /\ last_flare_time = None /\ last_daily_date = None
    /\ pollPc = "idle" /\ pollFlare = NoData /\ pollEmbed = NoEmbed
    /\ pollQueue = << >> /\ pollSnapshot = {} /\ pollLog = << >> /\ pollFetches = 0
    /\ digestPc = "idle" /\ digestQueue = << >> /\ digestSnapshot = {} /\ digestLog = << >>
    /\ now_est \in [day : {0}, hour : {0}, minute : 0..(LoopMinutes - 1)]
    /\ reply = NoReply
    /\ attempts = [k \in FlareIds \X Destinations |-> 0]
    /\ firedOn = [d \in 0..MaxDate |-> 0]
    /\ presence = NoPresence
    /\ clsInput = << >> /\ clsResult = NoResult
    /\ alertsArg = NoCall /\ alertsResult = NoReturn
    /\ forecastArg = NoBuild /\ forecastResult = NoChoice
    /\ InitExtra

\* the next tick of the loop, one period after the last one
CadenceTick ==
    \E t \in NextTickTimes(adapter, now_est) :
        /\ t.day <= MaxDate
        /\ daily_summary_task(t)

NextCadence ==
    \/ CadenceTick
    \/ \E outcome \in BuildResults : DigestBuilt(outcome)
    \/ \E chan \in ChannelKinds, send \in SendResults : DigestDeliver(chan, send)
    \/ DigestEnd

SpecCadence == InitCadence /\ [][NextCadence]_vars

PastWindow(a, t) ==
    \/ t.hour > DigestHour(a)
    \/ t.hour = DigestHour(a) /\ t.minute >= WindowMinutes

\* C24: on a day through which a destination stays digest-subscribed, once
\* the loop has ticked past the day's window the digest has fired that day.
C24_FiresEveryDay ==
    \A d \in 0..MaxDate :
        (now_est.day = d /\ PastWindow(adapter, now_est) /\ subscribed_daily # {})
            => firedOn[d] >= 1

\* ----------------------- fetch_latest_flare -----------------------------
\* What http.get_json meets: a transport error, an HTTP error status, a body
\* that is no JSON, a JSON value that is no list, or a JSON list.
Payload(kind, arr) == [kind |-> kind, arr |-> arr]
NoDataPayloads ==
    {Payload(k, << >>) : k \in {"transport_error", "http_error", "malformed", "object", "list"}}
FlarePayloads ==
    NoDataPayloads
        \cup {Payload("list", <<r>>) : r \in FlareRecords \cup {NonDict}}
        \cup {Payload("list", <<r, Rec(<<"X", "9">>, NoClass, "T1", None, None)>>) : r \in FlareRecords}

\* a fetch that answers a failure with a stock record
fetch_latest_flare_stock(payload) ==
    IF payload.kind = "list" /\ Len(payload.arr) > 0 THEN payload.arr[1] ELSE LatestFlare

\* data[0] of a non-empty list; None for everything else, exceptions included
fetch_latest_flare(payload) ==
    IF payload.kind = "list" /\ Len(payload.arr) > 0 THEN payload.arr[1] ELSE NoData

NextFetch ==
    \/ PollTick
    \/ \E payload \in FlarePayloads, build \in BuildResults :
            PollFetched(fetch_latest_flare(payload), build)
    \/ \E chan \in ChannelKinds, send \in SendResults : PollDeliver(chan, send)
    \/ PollEnd
    \/ \E ch \in Destinations, kind \in ContextKinds : subscribe_flares_cmd(ch, kind)
    \/ \E ch \in Destinations, kind \in ContextKinds : unsubscribe_flares_cmd(ch, kind)
    \/ CmdEnd

SpecFetch == Init /\ [][NextFetch]_vars

\* C25: a poll cycle whose fetch meets an error, a non-list or an empty list
\* ends without a delivery and without a change to the seen set, the
\* subscriber sets, the markers or the delivery counts; the feed was
\* fetched once in the cycle and is not fetched again before the next tick.
C25_NoDataNoEffect ==
    /\ [][\A payload \in NoDataPayloads, build \in BuildResults :
            PollFetched(fetch_latest_flare(payload), build)
                => /\ pollPc' = "done"
                   /\ pollLog' = << >> /\ pollQueue' = << >>
                   /\ pollFetches' = 1
                   /\ UNCHANGED <<progVars, histVars>>]_vars
    /\ [][pollFetches' > pollFetches => pollPc = "idle" /\ pollFetches' = 1]_vars
    /\ [][pollPc = "done" /\ pollFlare = NoData
            => pollPc' = "idle" \/ UNCHANGED <<pollVars, histVars>>]_vars

\* a cycle with a subscriber has ended on a fetch without data
C25_Witness ==
    /\ pollPc = "done" /\ pollFlare = NoData /\ pollFetches = 1
    /\ subscribed_flares # {} /\ pollLog = << >> /\ seen_flare_ids = {}

\* ----------------------- the fan-out of an accepted event ---------------
AttemptsTo(log, ch) ==
    Cardinality({i \in 1..Len(log) : log[i].ch = ch /\ log[i].result # "skipped"})

\* C26: when the fan-out of an accepted event is over, every destination of
\* the snapshot taken when the fan-out started has had exactly one delivery
\* attempt, and no other destination has had one.
C26_OneAttemptEach ==
    (pollPc = "done" /\ pollSnapshot # {})
        => \A ch \in Destinations :
               AttemptsTo(pollLog, ch) = IF ch \in pollSnapshot THEN 1 ELSE 0

\* ----------------------- unsubscribe during a poll cycle ----------------
\* destinations the step has delivered a notification to
NewlyReceived == Received(NewPollEntries)

\* C27 as claimed: a notification is delivered only to a destination that
\* is in the flare set when the send is made, so never to one whose
\* unsubscribe command has completed.
C27_NoDeliveryAfterUnsubscribe ==
    [][NewlyReceived \subseteq subscribed_flares]_vars

\* C27 amended: a cycle delivers only to the destinations of its snapshot;
\* the snapshot is the flare set at the moment the fetch has returned and the
\* message is built, so an unsubscribe completed before that moment (during
\* the fetch included) keeps the destination out of the cycle; Slack, whose
\* fan-out does not suspend, never delivers to an unsubscribed destination.
C27_DeliveryOnlyToSnapshot ==
    /\ [][NewlyReceived \subseteq pollSnapshot']_vars
    /\ [][pollSnapshot' # pollSnapshot /\ pollSnapshot' # {}
            => FetchReturned /\ pollSnapshot' = subscribed_flares]_vars
    /\ [][adapter = "slack" => NewlyReceived \subseteq subscribed_flares]_vars
    /\ [][pollPc = "fanout" => pollSnapshot' = pollSnapshot]_vars

\* Discord: the last destination of the fan-out got the notification although
\* it had left the flare set while the cycle was sending to the other one
C27_Witness ==
    /\ adapter = "discord" /\ pollPc = "done" /\ Len(pollLog) = 2
    /\ pollLog[2].result = "ok"
    /\ pollLog[2].ch \notin subscribed_flares
    /\ pollLog[2].ch \in pollSnapshot

\* ----------------------- accepted, but delivered to nobody --------------
Skipped(log) == {log[i].ch : i \in {j \in 1..Len(log) : log[j].result = "skipped"}}

\* C28 as claimed: a cycle that adds an id to the seen set makes at least
\* one delivery attempt for the event before it ends.
C28_SeenImpliesAttempt ==
    /\ [][FetchReturned /\ seen_flare_ids' # seen_flare_ids
            => pollPc' = "fanout" \/ Attempted(pollLog') # {}]_vars
    /\ [][pollPc = "fanout" /\ pollPc' = "done" => Attempted(pollLog') # {}]_vars

\* C28 amended: an id is added to the seen set only by a cycle that found a
\* subscriber at its tick and fetched; delivery attempts are made only for
\* the event the cycle has marked seen and only to its snapshot; when the
\* fan-out is over every snapshot destination that was not passed over has
\* been attempted (Discord), and a non-empty snapshot has had at least its
\* first send attempted (Slack).
C28_AttemptsOnlyForSeen ==
    /\ [][seen_flare_ids' # seen_flare_ids => FetchReturned /\ pollFetches = 1]_vars
    /\ [][\A id \in FlareIds, ch \in Destinations :
            attempts'[<<id, ch>>] > attempts[<<id, ch>>]
                => /\ id = FlareIdOf(pollFlare') /\ id \in seen_flare_ids'
                   /\ ch \in pollSnapshot']_vars
    /\ [](pollPc = "done" /\ pollSnapshot # {}
            => IF adapter = "discord"
               THEN Attempted(pollLog) = pollSnapshot \ Skipped(pollLog)
               ELSE Attempted(pollLog) # {})

\* the event was accepted and its message built, but every subscriber had
\* unsubscribed while the fetch was in flight: nobody is attempted
C28_Witness ==
    /\ pollPc = "done" /\ pollFetches = 1
    /\ FlareIdOf(pollFlare) \in seen_flare_ids
    /\ pollEmbed # NoEmbed
    /\ pollSnapshot = {} /\ subscribed_flares = {} /\ pollLog = << >>

\* ----------------------- the two schedulers -----------------------------
PollStep == pollVars' # pollVars
DigestStep == <<digestPc, digestQueue, digestSnapshot, digestLog>>'
                  # <<digestPc, digestQueue, digestSnapshot, digestLog>>

\* C29: a step of the poll cycle leaves the digest marker and the daily
\* subscriber set as they were; a step of the digest tick leaves the seen
\* set and the flare subscriber set as they were.
C29_SchedulersApart ==
    /\ [][PollStep => UNCHANGED <<last_daily_date, subscribed_daily, firedOn>>]_vars
    /\ [][DigestStep => UNCHANGED <<seen_flare_ids, subscribed_flares, last_flare_time,
                                     attempts>>]_vars
    /\ [][~(PollStep /\ DigestStep)]_vars

\* Discord: both fan-outs are under way, the poll cycle having accepted an
\* event and the digest having fired, for a destination subscribed to both
C29_Witness ==
    /\ pollPc = "fanout" /\ digestPc = "fanout"
    /\ seen_flare_ids # {} /\ last_daily_date # None
    /\ subscribed_flares \cap subscribed_daily # {}

\* ----------------------- ticks that do not fire -------------------------
DigestTicked == digestPc = "idle" /\ digestPc' # "idle"

\* C30: a digest tick outside the window, or one that finds the daily set
\* empty, starts no build (so no fetch), delivers nothing and leaves the
\* marker as it was; a later tick inside the window of a day whose marker is
\* still unset for that day fires as soon as a destination is subscribed.
C30_IdleTickLeavesMarker ==
    /\ [][DigestTicked /\ (~InWindow(adapter, now_est') \/ subscribed_daily = {})
            => /\ digestPc' = "done"
               /\ digestLog' = << >> /\ digestQueue' = << >>
               /\ UNCHANGED <<progVars, histVars>>]_vars
    /\ [][DigestTicked /\ InWindow(adapter, now_est') /\ subscribed_daily # {}
             /\ firedOn[now_est'.day] = 0
            => /\ digestPc' = "build"
               /\ last_daily_date' = strftime_ymd(now_est')
               /\ firedOn'[now_est'.day] = 1]_vars
    /\ [][digestPc = "done" /\ digestLog = << >>
            => UNCHANGED <<progVars, histVars, digestLog>>]_vars

\* a tick inside the window has found nobody subscribed and has not fired
C30_Witness ==
    /\ digestPc = "done" /\ InWindow(adapter, now_est)
    /\ subscribed_daily = {} /\ digestLog = << >>
    /\ firedOn[now_est.day] = 0 /\ last_daily_date # strftime_ymd(now_est)

\* ----------------------- the two adapters side by side ------------------
\* Both bots are given the same ticks, feed records, clock values, commands
\* and delivery outcomes; every cycle runs to its end before the next input.
RECURSIVE Ascending(_)
Ascending(S) ==
    IF S = {} THEN << >>
    ELSE LET m == CHOOSE x \in S : \A y \in S : x <= y
         IN  <<m>> \o Ascending(S \ {m})

Quiet(bot) == [bot EXCEPT !.sentFlares = {}, !.sentDigests = {}]

\* the destinations a fan-out over `subs` makes a send call for
FanoutAttempted(a, subs, o, msg) ==
    IF a = "discord" THEN subs
    ELSE Attempted(SlackFanout(Ascending(subs), o, msg))

\* the subscriber set after the fan-out: Discord discards every destination
\* whose send raised, Slack keeps the set
FanoutKept(a, subs, o) ==
    IF a = "discord" THEN {ch \in subs : o[ch] = "ok"} ELSE subs

\* one whole cycle of flare_poll_task / _flare_poll_task
flare_poll_cycle(a, bot, flare, build, o) ==
    IF bot.flares = {} THEN Quiet(bot)
    ELSE IF flare.kind # "dict" THEN Quiet(bot)
    ELSE IF ~is_m_or_x_class(FlareClassOf(flare)) THEN Quiet(bot)
    ELSE IF ~IsNew(bot.seen, FlareIdOf(flare)) THEN Quiet(bot)
    ELSE LET id == FlareIdOf(flare)
             accepted == [Quiet(bot) EXCEPT !.seen = Accept(bot.seen, id)]
         IN  IF build = "raise" THEN accepted
             ELSE [accepted EXCEPT
                     !.sentFlares = {<<id, ch>> : ch \in
                         FanoutAttempted(a, bot.flares, o, format_flare_embed(flare))},
                     !.flares = FanoutKept(a, bot.flares, o)]

\* one whole tick of daily_summary_task / _daily_summary_task at local time t
daily_summary_cycle(a, bot, t, build, o) ==
    IF ~(InWindow(a, t) /\ bot.marker # strftime_ymd(t) /\ bot.daily # {})
    THEN Quiet(bot)
    ELSE LET fired == [Quiet(bot) EXCEPT !.marker = MarkerSet(bot.marker, strftime_ymd(t))]
         IN  IF build = "raise" THEN fired
             ELSE [fired EXCEPT
                     !.sentDigests = {<<strftime_ymd(t), ch>> : ch \in
                         FanoutAttempted(a, bot.daily, o, build_daily_summary(t))},
                     !.daily = FanoutKept(a, bot.daily, o)]

\* a subscribe or unsubscribe command issued in a text channel
PairCommands == {"subscribe_flares", "unsubscribe_flares", "subscribe_daily", "unsubscribe_daily"}
command_effect(bot, cmd, ch) ==
    IF cmd = "subscribe_flares"
    THEN [Quiet(bot) EXCEPT !.flares = SubscribeAdd(bot.flares, ch)]
    ELSE IF cmd = "unsubscribe_flares"
    THEN [Quiet(bot) EXCEPT !.flares = UnsubscribeDiscard(bot.flares, ch)]
    ELSE IF cmd = "subscribe_daily"
    THEN [Quiet(bot) EXCEPT !.daily = SubscribeAdd(bot.daily, ch)]
    ELSE [Quiet(bot) EXCEPT !.daily = UnsubscribeDiscard(bot.daily, ch)]

PairRest == <<envVars, progVars, pollVars, digestPc, digestQueue, digestSnapshot,
              digestLog, reply, histVars, presence, clsVars, alertVars, forecastVars,
              callVars>>

PairPoll(flare, build, o) ==
    /\ discordBot' = flare_poll_cycle("discord", discordBot, flare, build, o)
    /\ slackBot' = flare_poll_cycle("slack", slackBot, flare, build, o)
    /\ UNCHANGED <<PairRest, now_est>>

PairDigest(t, build, o) ==
    /\ Before(now_est, t)
    /\ now_est' = t
    /\ discordBot' = daily_summary_cycle("discord", discordBot, t, build, o)
    /\ slackBot' = daily_summary_cycle("slack", slackBot, t, build, o)
    /\ UNCHANGED PairRest

PairCommand(cmd, ch) ==
    /\ discordBot' = command_effect(discordBot, cmd, ch)
    /\ slackBot' = command_effect(slackBot, cmd, ch)
    /\ UNCHANGED <<PairRest, now_est>>

\* the two destinations the side-by-side run uses
PairDests == {1, 2}

NextPair ==
    \/ \E flare \in LatestResults, build \in BuildResults,
          o \in [PairDests -> SlackSendOutcomes] : PairPoll(flare, build, o)
    \/ \E t \in TickTimes, build \in BuildResults,
          o \in [PairDests -> SlackSendOutcomes] : PairDigest(t, build, o)
    \/ \E cmd \in PairCommands, ch \in PairDests : PairCommand(cmd, ch)

SpecPair == Init /\ [][NextPair]_vars

\* C31: fed the same inputs, the two adapters keep equal seen sets, equal
\* subscriber sets and equal digest markers, and attempt the same events and
\* digests for the same destinations.
C31_AdaptersAgree == discordBot = slackBot

\* ----------------------- what the digest lists for a date ---------------
\* A feed timestamp: the UTC date, a separator and the UTC hour.
HourValue == [h \in {"02", "12"} |-> IF h = "02" THEN 2 ELSE 12]
Separators == {"T", " "}
Timestamps ==
    {<<DateStr[d + 1], sep, h>> : d \in 0..MaxDate, sep \in Separators, h \in {"02", "12"}}
NoTime == << >>

\* America/New_York in winter is five hours behind UTC
UtcOffsetHours == 5

\* the index of the local date a timestamp falls on (-1: the day before day 0)
DateIndex(date_str) == CHOOSE d \in 0..(Len(DateStr) - 1) : DateStr[d + 1] = date_str
LocalDateIndex(ts) ==
    IF HourValue[ts[3]] < UtcOffsetHours THEN DateIndex(ts[1]) - 1 ELSE DateIndex(ts[1])

\* if "T" in str(issued): issued.split("T")[0] == date_str
OnDate(issued, date_str) ==
    /\ issued # NoTime
    /\ \E i \in 1..Len(issued) : issued[i] = "T"
    /\ SplitAtT(issued) = <<date_str>>

\* today_alerts: the alerts of the list that pass the date test, in order
RECURSIVE today_alerts(_, _)
today_alerts(all_alerts, date_str) ==
    IF all_alerts = << >> THEN << >>
    ELSE (IF OnDate(all_alerts[1].issue_datetime, date_str) THEN <<all_alerts[1]>> ELSE << >>)
            \o today_alerts(Tail(all_alerts), date_str)

\* today_flare: the latest flare when it passes the date test
today_flare(latest_flare, date_str) ==
    IF latest_flare.kind = "dict" /\ OnDate(latest_flare.max_time, date_str)
    THEN latest_flare ELSE NoData

MaxListed == 2
ListingAlerts == {[issue_datetime |-> ts] : ts \in Timestamps}
ListingFlares == {Rec(<<"M", "1", ".", "5">>, NoClass, ts, None, None) : ts \in Timestamps}
                    \cup {NoData}

InitListing ==
    /\ InitProgram
    /\ clsInput = NoClass /\ clsResult = NoResult
    /\ alertsArg = NoCall /\ alertsResult = NoReturn
    /\ forecastArg = NoBuild /\ forecastResult = NoChoice
    /\ discordBot = NoBot /\ slackBot = NoBot
    /\ \E all_alerts \in UNION {[1..n -> ListingAlerts] : n \in 0..MaxListed},
          latest_flare \in ListingFlares, date \in 0..MaxDate :
         callArg = [kind |-> "listing", all_alerts |-> all_alerts,
                    latest_flare |-> latest_flare, date |-> date]
    /\ callResult = NoValue

\* build_daily_summary_embed up to the choice of today_alerts and today_flare
BuildListing ==
    /\ ~callResult.done
    /\ callArg.kind = "listing"
    /\ callResult' =
         [done |-> TRUE,
          today_alerts |-> today_alerts(callArg.all_alerts, DateStr[callArg.date + 1]),
          today_flare |-> today_flare(callArg.latest_flare, DateStr[callArg.date + 1])]
    /\ UNCHANGED <<envVars, progVars, pollVars, digestVars, reply, histVars, presence,
                   clsVars, alertVars, forecastVars, pairVars, callArg>>

NextListing == BuildListing

SpecListing == InitListing /\ [][NextListing]_vars

\* C32: the digest for local date D lists an alert, and the latest flare,
\* exactly when the record's timestamp converted to local time falls on D.
C32_ListedIffLocalDate ==
    callResult.done =>
      LET D == callArg.date
          listed == {callResult.today_alerts[i] : i \in 1..Len(callResult.today_alerts)}
      IN  /\ \A i \in 1..Len(callArg.all_alerts) :
                 callArg.all_alerts[i] \in listed
                    <=> LocalDateIndex(callArg.all_alerts[i].issue_datetime) = D
          /\ callArg.latest_flare # NoData =>
                 (callResult.today_flare = callArg.latest_flare
                    <=> LocalDateIndex(callArg.latest_flare.max_time) = D)

\* ----------------------- the alerts section of the digest ---------------
AlertCap == 5
MaxToday == 6
MessageTypes == {"ALERT", "WARNING"}
NoMore == 0

\* today_alerts[:5]
FirstAlerts(alerts) ==
    IF Len(alerts) <= AlertCap THEN alerts ELSE SubSeq(alerts, 1, AlertCap)

\* The "Today's Alerts" section: one line per alert of today_alerts[:5];
\* Discord appends "...and N more" when the list is longer, Slack does not.
alerts_section(a, alerts) ==
    [lines |-> FirstAlerts(alerts),
     more  |-> IF a = "discord" /\ Len(alerts) > AlertCap
               THEN Len(alerts) - AlertCap ELSE NoMore]

InitSection ==
    /\ InitProgram
    /\ clsInput = NoClass /\ clsResult = NoResult
    /\ alertsArg = NoCall /\ alertsResult = NoReturn
    /\ forecastArg = NoBuild /\ forecastResult = NoChoice
    /\ discordBot = NoBot /\ slackBot = NoBot
    /\ \E alerts \in UNION {[1..n -> MessageTypes] : n \in 0..MaxToday} :
         callArg = [kind |-> "section", today_alerts |-> alerts]
    /\ callResult = NoValue

\* build_daily_summary_embed / _build_daily_summary_blocks: the alerts section
BuildSection ==
    /\ ~callResult.done
    /\ callArg.kind = "section"
    /\ callResult' = [done |-> TRUE,
                      section |-> alerts_section(adapter, callArg.today_alerts)]
    /\ UNCHANGED <<envVars, progVars, pollVars, digestVars, reply, histVars, presence,
                   clsVars, alertVars, forecastVars, pairVars, callArg>>

NextSection == BuildSection

SpecSection == InitSection /\ [][NextSection]_vars

\* C33: with n alerts on the digest date the section shows the first
\* min(n, 5) of them and, when n > 5, says that n - 5 more exist, in the
\* Discord digest and in the Slack digest.
C33_CapAndMore ==
    callResult.done =>
      LET n == Len(callArg.today_alerts)
          shown == callResult.section.lines
      IN  /\ Len(shown) = IF n < AlertCap THEN n ELSE AlertCap
          /\ \A i \in 1..Len(shown) : shown[i] = callArg.today_alerts[i]
          /\ callResult.section.more = IF n > AlertCap THEN n - AlertCap ELSE NoMore

\* ----------------------- Slack /flare_alerts: the limit -----------------
LimitLow == 1
LimitHigh == 10
LimitDefault == 5
MaxText == 2

\* Characters of the command text: ASCII decimal digits, a letter, a sign,
\* and SUPERSCRIPT TWO, for which str.isdigit() is true and int() raises.
DecimalChars == {"0", "1", "5", "9"}
SuperscriptChars == {"^2"}
OtherChars == {"a", "-"}
TextChars == DecimalChars \cup SuperscriptChars \cup OtherChars
CommandTexts == UNION {[1..n -> TextChars] : n \in 0..MaxText}

DigitValue == [c \in DecimalChars |->
                 IF c = "0" THEN 0 ELSE IF c = "1" THEN 1 ELSE IF c = "5" THEN 5 ELSE 9]

\* str.isdigit(): not empty and every character a digit character
isdigit(text) ==
    /\ text # << >>
    /\ \A i \in 1..Len(text) : text[i] \in DecimalChars \cup SuperscriptChars

\* the text is a decimal numeral
IsDecimal(text) == text # << >> /\ \A i \in 1..Len(text) : text[i] \in DecimalChars

RECURSIVE DecimalValue(_)
DecimalValue(text) ==
    IF text = << >> THEN 0
    ELSE DecimalValue(SubSeq(text, 1, Len(text) - 1)) * 10 + DigitValue[text[Len(text)]]

\* int(text): the value of a decimal numeral, ValueError for anything else
int(text) ==
    IF IsDecimal(text) THEN [kind |-> "value", value |-> DecimalValue(text)]
    ELSE [kind |-> "ValueError", value |-> 0]

\* limit = int(text) if text.isdigit() and 1 <= int(text) <= 10 else 5, then
\* _cmd_flare_alerts(channel_id, limit); an exception of int() is caught by
\* the handler, which replies with the error and calls nothing
flare_alerts_limit(text) ==
    IF ~isdigit(text) THEN [kind |-> "call", limit |-> LimitDefault]
    ELSE IF int(text).kind = "ValueError" THEN [kind |-> "error", limit |-> 0]
    ELSE IF LimitLow <= int(text).value /\ int(text).value <= LimitHigh
    THEN [kind |-> "call", limit |-> int(text).value]
    ELSE [kind |-> "call", limit |-> LimitDefault]

InitLimit ==
    /\ InitState /\ adapter = "slack" /\ token = TRUE /\ process = "running"
    /\ app_token = TRUE /\ tasks = BothTasks
    /\ clsInput = NoClass /\ clsResult = NoResult
    /\ alertsArg = NoCall /\ alertsResult = NoReturn
    /\ forecastArg = NoBuild /\ forecastResult = NoChoice
    /\ discordBot = NoBot /\ slackBot = NoBot
    /\ \E text \in CommandTexts : callArg = [kind |-> "flare_alerts", text |-> text]
    /\ callResult = NoValue

\* _handle_slash_command for /flare_alerts up to the call of _cmd_flare_alerts
ParseLimit ==
    /\ ~callResult.done
    /\ callArg.kind = "flare_alerts"
    /\ callResult' = [done |-> TRUE, outcome |-> flare_alerts_limit(callArg.text)]
    /\ UNCHANGED <<envVars, progVars, pollVars, digestVars, reply, histVars, presence,
                   clsVars, alertVars, forecastVars, pairVars, callArg>>

NextLimit == ParseLimit

SpecLimit == InitLimit /\ [][NextLimit]_vars

\* C34: for every command text, fetch_alerts is called with a limit in
\* 1..10: the value of the text when the text is a decimal numeral between 1
\* and 10, and 5 for every other text.
C34_LimitInRange ==
    callResult.done =>
      LET text == callArg.text
          out == callResult.outcome
          valid == IsDecimal(text) /\ DecimalValue(text) \in LimitLow..LimitHigh
      IN  /\ out.kind = "call"
          /\ out.limit \in LimitLow..LimitHigh
          /\ out.limit = IF valid THEN DecimalValue(text) ELSE LimitDefault

\* ----------------------- Discord: where a subscribe is accepted ---------
NewSubscribers ==
    (subscribed_flares' \ subscribed_flares) \cup (subscribed_daily' \ subscribed_daily)

\* C35: in the Discord adapter a subscribe command issued outside a text
\* channel or thread is answered with the error reply and leaves both
\* subscriber sets as they were; a destination enters a subscriber set only
\* by a subscribe command issued in a text channel or thread.
C35_OnlyTextChannels ==
    /\ [][adapter = "discord" =>
            \A ch \in Destinations :
                (subscribe_flares_cmd(ch, "dm") \/ subscribe_daily_cmd(ch, "dm"))
                    => /\ reply'.text = "only text channels"
                       /\ UNCHANGED <<subscribed_flares, subscribed_daily>>]_vars
    /\ [][adapter = "discord" =>
            \A ch \in NewSubscribers :
                subscribe_flares_cmd(ch, "text") \/ subscribe_daily_cmd(ch, "text")]_vars

\* Discord: a daily subscribe from a direct message was rejected while the
\* flare set has a member
C35_Witness ==
    /\ adapter = "discord"
    /\ reply.cmd = "subscribe_daily" /\ reply.text = "only text channels"
    /\ reply.ch \notin subscribed_daily /\ subscribed_flares # {}

\* C36: in the Slack adapter start() creates the poll task and the daily
\* summary task exactly when the app token was supplied, each once and only
\* at startup; without the app token the process stays alive and no poll
\* cycle, fetch or digest tick ever happens.
C36_TasksIffSocketClient ==
    /\ [](adapter = "slack" /\ token /\ process # "boot"
            => /\ app_token => tasks = BothTasks /\ process = "running"
               /\ ~app_token => tasks = NoTasks /\ process = "idle")
    /\ [](adapter = "slack" /\ ~app_token
            => /\ pollPc = "idle" /\ pollFetches = 0
               /\ digestPc = "idle" /\ now_est = [day |-> 0, hour |-> 0, minute |-> 0]
               /\ seen_flare_ids = {} /\ last_daily_date = None
               /\ \A d \in 0..MaxDate : firedOn[d] = 0)
    /\ [][tasks' # tasks => process = "boot" /\ tasks = NoTasks]_vars
    /\ [][pollPc' # pollPc \/ digestPc' # digestPc => tasks = BothTasks]_vars

\* Slack with the bot token only: started, alive, nothing scheduled
C36_Witness ==
    /\ adapter = "slack" /\ token /\ ~app_token
    /\ process = "idle" /\ tasks = NoTasks

\* ----------------------- the presence text of status_task ---------------
PresenceLimit == 128
MaxClassLen == 125
Percentages == {0, 42, 100}

DigitChar == <<"0", "1", "2", "3", "4", "5", "6", "7", "8", "9">>

\* str(n) of a non-negative integer
RECURSIVE Str(_)
Str(n) == IF n < 10 THEN <<DigitChar[n + 1]>> ELSE Str(n \div 10) \o <<DigitChar[(n % 10) + 1]>>

\* a class string of n characters as the feed can hold it
ClassOfLen(n) == [i \in 1..n |-> IF i = 1 THEN "M" ELSE "9"]

\* f"Current Flare: {flare_class} | M: {m_chance}% | X: {x_chance}%"
TextLong(c, m, x) ==
    <<"C", "u", "r", "r", "e", "n", "t", " ", "F", "l", "a", "r", "e", ":", " ">> \o c \o <<" ", "|", " ", "M", ":", " ">> \o Str(m)
        \o <<"%", " ", "|", " ", "X", ":", " ">> \o Str(x) \o <<"%">>

\* f"Flare: {flare_class} | M: {m_chance}% | X: {x_chance}%"
TextShorter(c, m, x) ==
    <<"F", "l", "a", "r", "e", ":", " ">> \o c \o <<" ", "|", " ", "M", ":", " ">> \o Str(m)
        \o <<"%", " ", "|", " ", "X", ":", " ">> \o Str(x) \o <<"%">>

\* f"{flare_class} | M:{m_chance}% X:{x_chance}%"
TextShortest(c, m, x) ==
    c \o <<" ", "|", " ", "M", ":">> \o Str(m) \o <<"%", " ", "X", ":">> \o Str(x) \o <<"%">>

\* f"Flare: {flare_class}"
TextClassOnly(c) == <<"F", "l", "a", "r", "e", ":", " ">> \o c

\* the chain of `if len(text) > 128` in status_task
status_text(c, m, x) ==
    IF Len(TextLong(c, m, x)) <= PresenceLimit THEN TextLong(c, m, x)
    ELSE IF Len(TextShorter(c, m, x)) <= PresenceLimit THEN TextShorter(c, m, x)
    ELSE IF Len(TextShortest(c, m, x)) <= PresenceLimit THEN TextShortest(c, m, x)
    ELSE TextClassOnly(c)

InitStatus ==
    /\ InitState /\ adapter = "discord" /\ token = TRUE /\ process = "running"
    /\ app_token = TRUE /\ tasks = BothTasks
    /\ clsInput = NoClass /\ clsResult = NoResult
    /\ alertsArg = NoCall /\ alertsResult = NoReturn
    /\ forecastArg = NoBuild /\ forecastResult = NoChoice
    /\ discordBot = NoBot /\ slackBot = NoBot
    /\ \E n \in 0..MaxClassLen, m \in Percentages, x \in Percentages :
         callArg = [kind |-> "status",
                    flare_class |-> IF n = 0 THEN NoneText ELSE ClassOfLen(n),
                    m_chance |-> m, x_chance |-> x]
    /\ callResult = NoValue

\* status_task from the fetched values to the text given to change_presence
StatusText ==
    /\ ~callResult.done
    /\ callArg.kind = "status"
    /\ callResult' = [done |-> TRUE,
                      text |-> status_text(callArg.flare_class, callArg.m_chance,
                                           callArg.x_chance)]
    /\ UNCHANGED <<envVars, progVars, pollVars, digestVars, reply, histVars, presence,
                   clsVars, alertVars, forecastVars, pairVars, callArg>>

NextStatus == StatusText

SpecStatus == InitStatus /\ [][NextStatus]_vars

\* C37: the text status_task gives to change_presence is at most 128
\* characters long, for every flare class string and pair of percentages.
C37_PresenceWithinLimit ==
    callResult.done => Len(callResult.text) <= PresenceLimit

====
